---- MODULE Spec2Model ----
(***************************************************************************)
(* Model of the BVH culling core of dx11-gpu-culling: the CPU hierarchy    *)
(* (CPUBVHSystem), the GPU hierarchy and its rebuild policy                *)
(* (GPUBVHSystem and its compute kernels) and the frame loop that drives   *)
(* them (DXGame::Update).                                                  *)
(*                                                                         *)
(* Lengths are fixed-point integers in hundredths of a world unit, so      *)
(* MOVEMENT_THRESHOLD = 0.01f is 1 and REBUILD_THRESHOLD = 2.0f is 200.    *)
(* A Vector3 is a tuple <<x, y, z>>.  C++ arrays, std::vectors and GPU     *)
(* structured buffers are functions over 0 .. n-1, read and written by     *)
(* field name.                                                             *)
(***************************************************************************)
EXTENDS Integers, Sequences, FiniteSets, TLC

(***************************************************************************)
(* Program constants (namespace Config, Common.h).                         *)
(***************************************************************************)
MOVEMENT_THRESHOLD == 1
REBUILD_THRESHOLD == 200
BVH_QUALITY_THRESHOLD == 2
MAX_FRAMES_BETWEEN_REBUILDS == 300
BVH_REFIT_ITERATIONS == 3
OCCLUSION_FRAME_THRESHOLD == 1

(***************************************************************************)
(* Bounds of the model.                                                    *)
(***************************************************************************)
\* Largest object count of the class-level specifications.
MaxObjects == 4
\* Objects of the class-level specifications sit at x = 0, Spacing, ...,
\* MaxCoord * Spacing.
MaxCoord == 2
Spacing == 150
\* Object moves of one class-level run.
MaxMoves == 1
\* The culling kernel's traversal loop is followed for 2^MaxCullRuns iterations.
MaxCullRuns == 12
\* ShouldRebuildBVH is called in class-level runs while the frame counter is
\* below MaxPolicyCalls.
MaxPolicyCalls == 1
\* An occlusion query reports "occluded" only while occludedFrameCount is
\* below MaxOccluded.
MaxOccluded == 3

\* The runs of the frame loop with occlusion queries have MaxFrames frames.
MaxFrames == 8
\* Function-level runs of IsBoxInFrustum: plane offsets and box coordinates
\* range over -MaxPlane .. MaxPlane.
MaxPlane == 1
\* Function-level runs of findSplit: the sorted keys range over 0 .. MaxKey.
MaxKey == 7
\* Kernel-level runs of the culling traversal: chains of up to MaxChain
\* internal nodes.
MaxChain == 66

(***************************************************************************)
(* Arrays.                                                                 *)
(***************************************************************************)
Size(arr) == Cardinality(DOMAIN arr)

EmptyArray == [i \in {} |-> 0]

\* The array with the elements of f, evaluated once (a function constructor
\* alone is evaluated again at every read).
Array(f) == f @@ EmptyArray

PushBack(arr, x) ==
    Array([i \in 0 .. Size(arr) |-> IF i < Size(arr) THEN arr[i] ELSE x])

Abs(n) == IF n < 0 THEN 0 - n ELSE n

MinInt(a, b) == IF a < b THEN a ELSE b

MaxInt(a, b) == IF a > b THEN a ELSE b

(***************************************************************************)
(* SimpleMath Vector3.                                                     *)
(***************************************************************************)
Vec(x, y, z) == <<x, y, z>>

VecZero == <<0, 0, 0>>

VecAdd(a, b) == <<a[1] + b[1], a[2] + b[2], a[3] + b[3]>>

VecSub(a, b) == <<a[1] - b[1], a[2] - b[2], a[3] - b[3]>>

VecMin(a, b) == <<MinInt(a[1], b[1]), MinInt(a[2], b[2]), MinInt(a[3], b[3])>>

VecMax(a, b) == <<MaxInt(a[1], b[1]), MaxInt(a[2], b[2]), MaxInt(a[3], b[3])>>

\* Largest r in lo .. hi with r * r <= n (hi * hi >= n, lo * lo <= n).
RECURSIVE SqrtSearch(_, _, _)
SqrtSearch(n, lo, hi) ==
    IF lo >= hi THEN lo
    ELSE LET mid == (lo + hi + 1) \div 2
         IN  IF mid * mid <= n THEN SqrtSearch(n, mid, hi)
             ELSE SqrtSearch(n, lo, mid - 1)

\* Vector3::Length: sqrt(x*x + y*y + z*z), exact for the axis-aligned
\* displacements of the model and rounded down otherwise.
Length(v) ==
    LET sq == v[1] * v[1] + v[2] * v[2] + v[3] * v[3]
    IN  SqrtSearch(sq, 0, Abs(v[1]) + Abs(v[2]) + Abs(v[3]))

(***************************************************************************)
(* RenderObject (Structures.h).                                            *)
(***************************************************************************)
\* RenderObject::GetPosition: the translation row of the world matrix.
GetPosition(obj) == obj.world

\* RenderObject::UpdateBounds: halfSize = baseSize * 0.5f.
UpdateBounds(obj) ==
    LET halfSize == <<obj.baseSize[1] \div 2, obj.baseSize[2] \div 2,
                      obj.baseSize[3] \div 2>>
    IN  [obj EXCEPT !.minBounds = VecSub(obj.world, halfSize),
                    !.maxBounds = VecAdd(obj.world, halfSize)]

(***************************************************************************)
(* Frustum (Structures.cpp).  A plane is <<x, y, z, w>>.                   *)
(***************************************************************************)
PlaneDistance(plane, minBounds, maxBounds) ==
    LET px == IF plane[1] >= 0 THEN maxBounds[1] ELSE minBounds[1]
        py == IF plane[2] >= 0 THEN maxBounds[2] ELSE minBounds[2]
        pz == IF plane[3] >= 0 THEN maxBounds[3] ELSE minBounds[3]
    IN  plane[1] * px + plane[2] * py + plane[3] * pz + plane[4]

\* A faulty IsBoxInFrustum that also rejects a box whose positive vertex lies
\* on a plane.
IsBoxInFrustumRejectsTouching(frustum, minBounds, maxBounds) ==
    \A i \in 1 .. 6 : ~(PlaneDistance(frustum[i], minBounds, maxBounds) <= 0)

\* Frustum::IsBoxInFrustum: FALSE as soon as the positive vertex of the box
\* is behind one of the six planes.
IsBoxInFrustum(frustum, minBounds, maxBounds) ==
    \A i \in 1 .. 6 : ~(PlaneDistance(frustum[i], minBounds, maxBounds) < 0)

(***************************************************************************)
(* CPUBVHSystem (CPUBVHSystem.cpp).  A BVHNode is a record; m_bvhNodes is  *)
(* an array of them and m_rootNode an index into it (-1: none).            *)
(***************************************************************************)
BVHNode(minBounds, maxBounds, leftChild, rightChild, objectIndex, isLeaf) ==
    [minBounds |-> minBounds, maxBounds |-> maxBounds,
     leftChild |-> leftChild, rightChild |-> rightChild,
     objectIndex |-> objectIndex, isLeaf |-> isLeaf]

\* The range and the orders std::sort may leave equal elements in: a rank
\* per element, used only between elements that compare equal.
TieOrders(n) ==
    {t \in [0 .. n - 1 -> 0 .. n - 1] : \A i, j \in 0 .. n - 1 : t[i] = t[j] => i = j}

\* Twice the centre of a node's box along an axis (0, 1, 2): the comparator
\* of BuildBVHRecursive compares (minBounds + maxBounds) * 0.5f.
Center2(node, axis) == node.minBounds[axis + 1] + node.maxBounds[axis + 1]

\* std::sort of nodeIndices by centre along axis.
SortNodes(nodes, nodeIndices, axis, tie) ==
    LET elems == {nodeIndices[k] : k \in 1 .. Len(nodeIndices)}
        Less(a, b) ==
            \/ Center2(nodes[a], axis) < Center2(nodes[b], axis)
            \/ /\ Center2(nodes[a], axis) = Center2(nodes[b], axis)
               /\ tie[a] < tie[b]
    IN  Array([k \in 1 .. Len(nodeIndices) |->
                  CHOOSE a \in elems : Cardinality({b \in elems : Less(b, a)}) = k - 1])

RECURSIVE BoundsMin(_, _, _)
BoundsMin(nodes, nodeIndices, k) ==
    IF k = 1 THEN nodes[nodeIndices[1]].minBounds
    ELSE VecMin(BoundsMin(nodes, nodeIndices, k - 1), nodes[nodeIndices[k]].minBounds)

RECURSIVE BoundsMax(_, _, _)
BoundsMax(nodes, nodeIndices, k) ==
    IF k = 1 THEN nodes[nodeIndices[1]].maxBounds
    ELSE VecMax(BoundsMax(nodes, nodeIndices, k - 1), nodes[nodeIndices[k]].maxBounds)

\* The axis with the largest extent.
LargestAxis(extent) ==
    LET axis == IF extent[2] > extent[1] THEN 1 ELSE 0
    IN  IF extent[3] > (IF axis = 0 THEN extent[1] ELSE extent[2]) THEN 2 ELSE axis

\* CPUBVHSystem::BuildBVHRecursive: the node array after the call and the
\* index it returns.
RECURSIVE BuildBVHRecursive(_, _, _)
BuildBVHRecursive(nodes, nodeIndices, tie) ==
    IF Len(nodeIndices) = 1 THEN [nodes |-> nodes, index |-> nodeIndices[1]]
    ELSE
        LET minBounds == BoundsMin(nodes, nodeIndices, Len(nodeIndices))
            maxBounds == BoundsMax(nodes, nodeIndices, Len(nodeIndices))
            axis == LargestAxis(VecSub(maxBounds, minBounds))
            sorted == SortNodes(nodes, nodeIndices, axis, tie)
            mid == Len(nodeIndices) \div 2
            leftNodes == SubSeq(sorted, 1, mid)
            rightNodes == SubSeq(sorted, mid + 1, Len(nodeIndices))
            pushed == PushBack(nodes, BVHNode(minBounds, maxBounds, -1, -1, -1, FALSE))
            nodeIndex == Size(pushed) - 1
            left == BuildBVHRecursive(pushed, leftNodes, tie)
            withLeft == [left.nodes EXCEPT ![nodeIndex].leftChild = left.index]
            right == BuildBVHRecursive(withLeft, rightNodes, tie)
        IN  [nodes |-> [right.nodes EXCEPT ![nodeIndex].rightChild = right.index],
             index |-> nodeIndex]

\* A faulty BuildBVH that takes the first node for the root instead of the
\* index BuildBVHRecursive returns.
CPUBuildBVHRootFirst(cpu, objects, tie) ==
    IF Size(objects) = 0 THEN cpu
    ELSE
        LET leaves == Array([i \in 0 .. Size(objects) - 1 |->
                                BVHNode(objects[i].minBounds, objects[i].maxBounds,
                                        -1, -1, i, TRUE)])
            objectIndices == Array([k \in 1 .. Size(objects) |-> k - 1])
            built == BuildBVHRecursive(leaves, objectIndices, tie)
        IN  [m_bvhNodes |-> built.nodes, m_rootNode |-> 0]

\* CPUBVHSystem::BuildBVH: one leaf per object, then the recursive build.
\* cpu is [m_bvhNodes, m_rootNode]; an empty object list leaves it as it is.
CPUBuildBVH(cpu, objects, tie) ==
    IF Size(objects) = 0 THEN cpu
    ELSE
        LET leaves == Array([i \in 0 .. Size(objects) - 1 |->
                                BVHNode(objects[i].minBounds, objects[i].maxBounds,
                                        -1, -1, i, TRUE)])
            objectIndices == Array([k \in 1 .. Size(objects) |-> k - 1])
            built == BuildBVHRecursive(leaves, objectIndices, tie)
        IN  [m_bvhNodes |-> built.nodes, m_rootNode |-> built.index]

\* CPUBVHSystem::IsValid.
IsValid(cpu) == cpu.m_rootNode >= 0 /\ Size(cpu.m_bvhNodes) # 0

\* CPUBVHSystem::FrustumCullBVH: the objects after the traversal from nodeIndex.
RECURSIVE FrustumCullBVH(_, _, _, _)
FrustumCullBVH(nodes, nodeIndex, frustum, objects) ==
    IF nodeIndex < 0 \/ nodeIndex >= Size(nodes) THEN objects
    ELSE
        LET node == nodes[nodeIndex]
        IN  IF ~IsBoxInFrustum(frustum, node.minBounds, node.maxBounds) THEN objects
            ELSE IF node.isLeaf
            THEN IF node.objectIndex >= 0 /\ node.objectIndex < Size(objects)
                 THEN [objects EXCEPT ![node.objectIndex].visible = TRUE]
                 ELSE objects
            ELSE FrustumCullBVH(nodes, node.rightChild, frustum,
                     FrustumCullBVH(nodes, node.leftChild, frustum, objects))

\* A faulty PerformFrustumCulling that does not reset the flags before the
\* traversal.
CPUPerformFrustumCullingKeepsFlags(cpu, frustum, objects) ==
    IF IsValid(cpu)
    THEN FrustumCullBVH(cpu.m_bvhNodes, cpu.m_rootNode, frustum, objects)
    ELSE objects

\* CPUBVHSystem::PerformFrustumCulling.
CPUPerformFrustumCulling(cpu, frustum, objects) ==
    LET reset == Array([i \in DOMAIN objects |-> [objects[i] EXCEPT !.visible = FALSE]])
    IN  IF IsValid(cpu)
        THEN FrustumCullBVH(cpu.m_bvhNodes, cpu.m_rootNode, frustum, reset)
        ELSE reset

(***************************************************************************)
(* 32-bit unsigned arithmetic of the Morton kernel.  A uint is a pair      *)
(* <<hi, lo>> of 16-bit halves.                                            *)
(***************************************************************************)
RECURSIVE BitAnd(_, _)
BitAnd(a, b) ==
    IF a = 0 \/ b = 0 THEN 0
    ELSE 2 * BitAnd(a \div 2, b \div 2) + (IF a % 2 = 1 /\ b % 2 = 1 THEN 1 ELSE 0)

RECURSIVE BitXor(_, _)
BitXor(a, b) ==
    IF a = 0 THEN b
    ELSE IF b = 0 THEN a
    ELSE 2 * BitXor(a \div 2, b \div 2) + (IF a % 2 = b % 2 THEN 0 ELSE 1)

\* v * m modulo 2^32, for a multiplier m = <<mh, ml>> with mh <= 1, ml <= 257.
Mul32(v, m) ==
    LET low == v[2] * m[2]
    IN  <<(v[1] * m[2] + v[2] * m[1] + (low \div 65536)) % 65536, low % 65536>>

And32(v, mask) == <<BitAnd(v[1], mask[1]), BitAnd(v[2], mask[2])>>

\* expandBits of the Morton kernel: the four multiply-and-mask steps, with
\* the masks 0xFF0000FF, 0x0F00F00F, 0xC30C30C3 and 0x49249249.
expandBits(v) ==
    LET v1 == And32(Mul32(<<0, v>>, <<1, 1>>), <<65280, 255>>)
        v2 == And32(Mul32(v1, <<0, 257>>), <<3840, 61455>>)
        v3 == And32(Mul32(v2, <<0, 17>>), <<49932, 12483>>)
        v4 == And32(Mul32(v3, <<0, 5>>), <<18724, 37449>>)
    IN  v4

Clamp(v, lo, hi) == IF v < lo THEN lo ELSE IF v > hi THEN hi ELSE v

\* A faulty morton3D that combines the axes as x * 2 + y * 4 + z.
morton3DSwapsAxes(pos) ==
    LET x == Mul32(expandBits(Clamp(pos[1], 0, 1023)), <<0, 2>>)
        y == Mul32(expandBits(Clamp(pos[2], 0, 1023)), <<0, 4>>)
        z == expandBits(Clamp(pos[3], 0, 1023))
        lo == x[2] + y[2] + z[2]
        hi == (x[1] + y[1] + z[1] + (lo \div 65536)) % 65536
    IN  hi * 65536 + (lo % 65536)

\* morton3D: the clamped and truncated coordinates, expanded and combined
\* as x * 4 + y * 2 + z (modulo 2^32; the result is below 2^30).
morton3D(pos) ==
    LET x == Mul32(expandBits(Clamp(pos[1], 0, 1023)), <<0, 4>>)
        y == Mul32(expandBits(Clamp(pos[2], 0, 1023)), <<0, 2>>)
        z == expandBits(Clamp(pos[3], 0, 1023))
        lo == x[2] + y[2] + z[2]
        hi == (x[1] + y[1] + z[1] + (lo \div 65536)) % 65536
    IN  hi * 65536 + (lo % 65536)

\* (center - sceneMin) / extent * 1023.0f on one axis, truncated as the cast
\* to uint does.  center2 is twice the centre in hundredths; the scene
\* bounds are in units of 1/2000.  A zero extent divides by zero: +inf
\* clamps to 1023, -inf and NaN to 0.
NormalizeAxis(center2, sceneMin, sceneMax) ==
    LET num == 10 * center2 - sceneMin
        extent == sceneMax - sceneMin
    IN  IF extent = 0 THEN (IF num > 0 THEN 1023 ELSE 0)
        ELSE IF (num < 0) # (extent < 0) /\ num # 0 THEN 0 - ((Abs(num) * 1023) \div Abs(extent))
        ELSE (Abs(num) * 1023) \div Abs(extent)

\* main of the Morton kernel for thread id.x = i (i < objectCount).
MortonCodeOf(obj, sceneMin, sceneMax) ==
    LET normalizedPos ==
            Array([a \in 1 .. 3 |->
                      NormalizeAxis(obj.minBounds[a] + obj.maxBounds[a], sceneMin[a], sceneMax[a])])
    IN  [mortonCode |-> morton3D(normalizedPos), objectIndex |-> obj.objectIndex]

(***************************************************************************)
(* GPUBVHSystem: construction.  A GPUBVHSystem is a record gpu whose       *)
(* fields are the members of the class, the created shaders and the        *)
(* contents of the device buffers.                                         *)
(***************************************************************************)
\* UpdateGPUObjectData: the CPU objects copied into the object buffer.
UpdateGPUObjectData(gpu, objects) ==
    IF ~gpu.buffers \/ Size(objects) = 0 THEN gpu
    ELSE [gpu EXCEPT !.ObjectData =
            Array([i \in 0 .. MinInt(Size(objects), gpu.m_objectCount) - 1 |->
                      [minBounds |-> objects[i].minBounds,
                       maxBounds |-> objects[i].maxBounds,
                       objectIndex |-> i,
                       occludedFrameCount |-> objects[i].occludedFrameCount]])]

\* GenerateMortonCodes: one Morton kernel thread per object of the uploaded
\* object buffer.  The Morton code buffer is written, sorted and consumed
\* inside BuildBVH and read nowhere else, so it is a value of the call.
GenerateMortonCodes(objectData, objectCount, sceneMin, sceneMax) ==
    Array([i \in 0 .. objectCount - 1 |-> MortonCodeOf(objectData[i], sceneMin, sceneMax)])

\* SortMortonCodes: std::sort by mortonCode.  std::sort is not stable, so
\* the order of equal codes is the oracle tie (a permutation rank).
SortMortonCodes(codes, n, tie) ==
    LET Less(i, j) == \/ codes[i].mortonCode < codes[j].mortonCode
                      \/ /\ codes[i].mortonCode = codes[j].mortonCode
                         /\ tie[i] < tie[j]
    IN  Array([k \in 0 .. n - 1 |->
                  codes[CHOOSE i \in 0 .. n - 1 :
                          Cardinality({j \in 0 .. n - 1 : Less(j, i)}) = k]])

\* firstbithigh: position of the highest set bit, -1 for 0.
RECURSIVE firstbithigh(_)
firstbithigh(v) == IF v = 0 THEN -1 ELSE 1 + firstbithigh(v \div 2)

\* The do-while loop of findSplit.
RECURSIVE findSplitLoop(_, _, _, _, _, _)
findSplitLoop(codes, firstCode, commonPrefix, last, split, step) ==
    LET step1 == (step + 1) \div 2
        newSplit == split + step1
        split1 ==
            IF newSplit < last
                  /\ firstbithigh(BitXor(firstCode, codes[newSplit].mortonCode)) > commonPrefix
            THEN newSplit ELSE split
    IN  IF step1 > 1
        THEN findSplitLoop(codes, firstCode, commonPrefix, last, split1, step1)
        ELSE split1

findSplit(codes, first, last) ==
    LET firstCode == codes[first].mortonCode
        lastCode == codes[last].mortonCode
    IN  IF firstCode = lastCode THEN (first + last) \div 2
        ELSE findSplitLoop(codes, firstCode, firstbithigh(BitXor(firstCode, lastCode)),
                           last, first, last - first)

\* calculateBounds: the box of the objects at sorted positions first .. last.
RECURSIVE calculateBounds(_, _, _, _)
calculateBounds(codes, objs, first, last) ==
    LET obj == objs[codes[last].objectIndex]
    IN  IF last <= first
        THEN [minBounds |-> objs[codes[first].objectIndex].minBounds,
              maxBounds |-> objs[codes[first].objectIndex].maxBounds]
        ELSE LET rest == calculateBounds(codes, objs, first, last - 1)
             IN  [minBounds |-> VecMin(rest.minBounds, obj.minBounds),
                  maxBounds |-> VecMax(rest.maxBounds, obj.maxBounds)]

\* main of the construction kernel for thread nodeIndex: the node it writes.
\* The parent and atomicCounter fields it also writes are read by no kernel
\* and are not part of the node record.
ConstructNode(codes, objs, objectCount, nodeIndex) ==
    LET numInternalNodes == objectCount - 1
    IN  IF nodeIndex >= numInternalNodes
        THEN LET objIdx == codes[nodeIndex - numInternalNodes].objectIndex
             IN  BVHNode(objs[objIdx].minBounds, objs[objIdx].maxBounds, -1, -1, objIdx, TRUE)
        ELSE LET rootSplit == findSplit(codes, 0, objectCount - 1)
                 first == IF nodeIndex = 0 THEN 0
                          ELSE IF nodeIndex <= rootSplit THEN nodeIndex ELSE rootSplit + 1
                 last == IF nodeIndex = 0 THEN objectCount - 1
                         ELSE IF nodeIndex <= rootSplit THEN rootSplit ELSE objectCount - 1
                 split == findSplit(codes, first, last)
                 leftChild == IF split = first THEN numInternalNodes + split ELSE split
                 rightChild == IF split + 1 = last THEN numInternalNodes + split + 1 ELSE split + 1
                 bounds == calculateBounds(codes, objs, first, last)
             IN  BVHNode(bounds.minBounds, bounds.maxBounds, leftChild, rightChild, -1, FALSE)

\* ConstructBVHOnGPU: one construction thread per node, 2 * m_objectCount - 1
\* nodes.  Each thread writes only its own node's fields modelled here.
ConstructBVHOnGPU(codes, objectData, objectCount) ==
    Array([n \in 0 .. 2 * objectCount - 2 |->
              ConstructNode(codes, objectData, objectCount, n)])

\* CalculateSurfaceAreaHeuristic: m_accumulatedMovement * 100.0f + 1000.0f,
\* with the accumulated movement in hundredths.
CalculateSurfaceAreaHeuristic(gpu) == gpu.m_accumulatedMovement + 1000

UpdateBVHQualityMetrics(gpu) ==
    LET currentSAH == CalculateSurfaceAreaHeuristic(gpu)
    IN  [gpu EXCEPT !.m_initialBVHSurfaceArea =
                        IF gpu.m_initialBVHSurfaceArea <= 0 THEN currentSAH
                        ELSE gpu.m_initialBVHSurfaceArea,
                    !.m_currentBVHSurfaceArea = currentSAH]

\* CalculateBVHQuality: the ratio current / initial as <<numerator, denominator>>.
CalculateBVHQuality(gpu) ==
    IF gpu.m_initialBVHSurfaceArea <= 0 THEN <<1, 1>>
    ELSE <<gpu.m_currentBVHSurfaceArea, gpu.m_initialBVHSurfaceArea>>

\* A faulty BuildBVH that leaves m_accumulatedMovement as it was.
GPUBuildBVHKeepsMovement(gpu, objects, sceneMin, sceneMax) ==
    IF Size(objects) = 0 \/ "mortonCodeCS" \notin gpu.shaders
          \/ "bvhConstructionCS" \notin gpu.shaders
    THEN {[gpu |-> gpu, result |-> FALSE]}
    ELSE LET up == UpdateGPUObjectData(gpu, objects)
             codes == GenerateMortonCodes(up.ObjectData, Size(objects), sceneMin, sceneMax)
             measured == UpdateBVHQualityMetrics(up)
             reset == [measured EXCEPT
                          !.m_needsRebuild = FALSE,
                          !.m_framesSinceLastRebuild = 0,
                          !.m_previousPositions =
                              Array([i \in 0 .. Size(objects) - 1 |->
                                        GetPosition(objects[i])])]
         IN  {[gpu |-> [reset EXCEPT !.BVHNodes =
                           ConstructBVHOnGPU(sorted, up.ObjectData, gpu.m_objectCount)],
               result |-> TRUE] :
              sorted \in {SortMortonCodes(codes, gpu.m_objectCount, tie) :
                            tie \in TieOrders(gpu.m_objectCount)}}

\* GPUBVHSystem::BuildBVH: the outcomes of the call, one per order std::sort
\* can leave the codes in, each the new system and the bool result.
GPUBuildBVH(gpu, objects, sceneMin, sceneMax) ==
    IF Size(objects) = 0 \/ "mortonCodeCS" \notin gpu.shaders
          \/ "bvhConstructionCS" \notin gpu.shaders
    THEN {[gpu |-> gpu, result |-> FALSE]}
    ELSE LET up == UpdateGPUObjectData(gpu, objects)
             codes == GenerateMortonCodes(up.ObjectData, Size(objects), sceneMin, sceneMax)
             measured == UpdateBVHQualityMetrics(up)
             reset == [measured EXCEPT
                          !.m_needsRebuild = FALSE,
                          !.m_framesSinceLastRebuild = 0,
                          !.m_accumulatedMovement = 0,
                          !.m_previousPositions =
                              Array([i \in 0 .. Size(objects) - 1 |->
                                        GetPosition(objects[i])])]
         IN  {[gpu |-> [reset EXCEPT !.BVHNodes =
                           ConstructBVHOnGPU(sorted, up.ObjectData, gpu.m_objectCount)],
               result |-> TRUE] :
              sorted \in {SortMortonCodes(codes, gpu.m_objectCount, tie) :
                            tie \in TieOrders(gpu.m_objectCount)}}

(***************************************************************************)
(* GPUBVHSystem: refit.  One Dispatch of the refit kernel runs one thread  *)
(* per node with no ordering between threads: a thread that reads a child  *)
(* reads either the bounds the child had before the Dispatch or the bounds *)
(* the child's thread writes in it.  The set seesNew holds the pairs       *)
(* <<parent, child>> whose read returns the newly written bounds.          *)
(***************************************************************************)
\* The nodes whose thread passes the kernel's guards and writes its bounds.
IsRefitLeaf(nodes, params, n) ==
    /\ n < params.nodeCount
    /\ nodes[n].isLeaf
    /\ nodes[n].objectIndex >= 0
    /\ nodes[n].objectIndex < params.objectCount

IsRefitInternal(nodes, params, n) ==
    /\ n < params.nodeCount
    /\ ~nodes[n].isLeaf
    /\ nodes[n].leftChild >= 0 /\ nodes[n].rightChild >= 0
    /\ nodes[n].leftChild < params.nodeCount /\ nodes[n].rightChild < params.nodeCount

Bounds(minBounds, maxBounds) == [minBounds |-> minBounds, maxBounds |-> maxBounds]

\* A read of BVHNodes or ObjectData past the end of the buffer returns zeros.
ReadBounds(buffer, i) ==
    IF i \in DOMAIN buffer THEN Bounds(buffer[i].minBounds, buffer[i].maxBounds)
    ELSE Bounds(VecZero, VecZero)

\* The pairs <<parent, child>> read by the internal threads of one Dispatch.
RefitReads(nodes, params) ==
    UNION {{<<p, nodes[p].leftChild>>, <<p, nodes[p].rightChild>>} :
            p \in {n \in DOMAIN nodes : IsRefitInternal(nodes, params, n)}}

\* The internal nodes reached from the nodes of from by 1 .. k reads that
\* see the new bounds.
RECURSIVE NewFrom(_, _, _)
NewFrom(seesNew, from, k) ==
    LET next == {e[2] : e \in {d \in seesNew : d[1] \in from}}
    IN  IF k = 0 \/ next = {} THEN {} ELSE next \cup NewFrom(seesNew, next, k - 1)

\* A choice of reads is an outcome of some schedule iff no thread sees, through
\* a chain of new bounds, bounds that depend on its own write.
Schedulable(nodes, seesNew) ==
    \A p \in {e[1] : e \in seesNew} : p \notin NewFrom(seesNew, {p}, Size(nodes))

\* The bounds thread n of the refit kernel writes (its old bounds if its
\* guards fail).
RECURSIVE RefitThread(_, _, _, _, _)
RefitThread(nodes, objs, params, seesNew, n) ==
    IF n \notin DOMAIN nodes THEN Bounds(VecZero, VecZero)
    ELSE IF IsRefitLeaf(nodes, params, n) THEN ReadBounds(objs, nodes[n].objectIndex)
    ELSE IF IsRefitInternal(nodes, params, n)
    THEN LET Child(c) == IF <<n, c>> \in seesNew
                         THEN RefitThread(nodes, objs, params, seesNew, c)
                         ELSE ReadBounds(nodes, c)
             leftChild == Child(nodes[n].leftChild)
             rightChild == Child(nodes[n].rightChild)
         IN  Bounds(VecMin(leftChild.minBounds, rightChild.minBounds),
                    VecMax(leftChild.maxBounds, rightChild.maxBounds))
    ELSE ReadBounds(nodes, n)

\* The reads whose outcome can differ between old and new bounds: a leaf
\* whose object bounds are already in the buffer reads the same either way.
RacyReads(nodes, objs, params) ==
    {e \in RefitReads(nodes, params) :
        \/ IsRefitInternal(nodes, params, e[2])
        \/ /\ IsRefitLeaf(nodes, params, e[2])
           /\ ReadBounds(objs, nodes[e[2]].objectIndex) # ReadBounds(nodes, e[2])}

\* The node buffers one Dispatch of the refit kernel can leave.
RefitDispatch(nodes, objs, params) ==
    {Array([n \in DOMAIN nodes |->
              LET b == RefitThread(nodes, objs, params, seesNew, n)
              IN  [nodes[n] EXCEPT !.minBounds = b.minBounds, !.maxBounds = b.maxBounds]]) :
     seesNew \in {r \in SUBSET RacyReads(nodes, objs, params) : Schedulable(nodes, r)}}

\* A faulty loop of RefitBVHBottomUp that issues one Dispatch less.
RECURSIVE RefitIterationsStopsEarly(_, _, _, _)
RefitIterationsStopsEarly(buffers, objs, params, iterations) ==
    IF iterations <= 1 THEN buffers
    ELSE RefitIterationsStopsEarly(
             UNION {RefitDispatch(nodes, objs, params) : nodes \in buffers},
             objs, params, iterations - 1)

\* BVH_REFIT_ITERATIONS Dispatches in sequence.
RECURSIVE RefitIterations(_, _, _, _)
RefitIterations(buffers, objs, params, iterations) ==
    IF iterations = 0 THEN buffers
    ELSE RefitIterations(UNION {RefitDispatch(nodes, objs, params) : nodes \in buffers},
                         objs, params, iterations - 1)

\* A faulty RefitBVH that restarts the frame counter as a rebuild does.
GPURefitBVHResetsClock(gpu, objects) ==
    IF "bvhRefitCS" \notin gpu.shaders \/ Size(objects) = 0 \/ ~gpu.buffers
    THEN {[gpu |-> gpu, result |-> FALSE]}
    ELSE LET up == UpdateGPUObjectData(gpu, objects)
         IN  {[gpu |-> UpdateBVHQualityMetrics([up EXCEPT !.BVHNodes = nodes,
                                                          !.m_framesSinceLastRebuild = 0]),
               result |-> TRUE] :
              nodes \in RefitIterations({up.BVHNodes}, up.ObjectData,
                                        up.cullingParams, BVH_REFIT_ITERATIONS)}

\* RefitBVH and RefitBVHBottomUp: the set of systems the call can leave, each
\* with the bool result.
GPURefitBVH(gpu, objects) ==
    IF "bvhRefitCS" \notin gpu.shaders \/ Size(objects) = 0 \/ ~gpu.buffers
    THEN {[gpu |-> gpu, result |-> FALSE]}
    ELSE LET up == UpdateGPUObjectData(gpu, objects)
         IN  {[gpu |-> UpdateBVHQualityMetrics([up EXCEPT !.BVHNodes = nodes]),
               result |-> TRUE] :
              nodes \in RefitIterations({up.BVHNodes}, up.ObjectData,
                                        up.cullingParams, BVH_REFIT_ITERATIONS)}

(***************************************************************************)
(* GPUBVHSystem: rebuild policy.                                           *)
(***************************************************************************)
RECURSIVE SumMovement(_, _, _)
SumMovement(objects, previous, n) ==
    IF n = 0 THEN 0
    ELSE SumMovement(objects, previous, n - 1)
         + (IF objects[n - 1].isDynamic
            THEN Length(VecSub(GetPosition(objects[n - 1]), previous[n - 1])) ELSE 0)

\* A faulty ShouldRebuildBVH without the frame ceiling.
ShouldRebuildBVHNoCeiling(gpu, objects) ==
    LET counted == [gpu EXCEPT !.m_framesSinceLastRebuild = @ + 1]
        positions == Array([i \in 0 .. Size(objects) - 1 |-> GetPosition(objects[i])])
        frameMovement == SumMovement(objects, gpu.m_previousPositions, Size(objects))
        moved == [counted EXCEPT
                    !.m_previousPositions =
                        Array([i \in 0 .. Size(objects) - 1 |->
                                  IF objects[i].isDynamic THEN positions[i] ELSE @[i]]),
                    !.m_accumulatedMovement = @ + frameMovement]
        qualityRatio == CalculateBVHQuality(moved)
    IN  IF Size(gpu.m_previousPositions) # Size(objects)
        THEN [gpu |-> [counted EXCEPT !.m_previousPositions = positions],
              result |-> FALSE, rule |-> "first"]
        ELSE IF moved.m_accumulatedMovement > REBUILD_THRESHOLD
        THEN [gpu |-> moved, result |-> TRUE, rule |-> "movement"]
        ELSE IF qualityRatio[1] > BVH_QUALITY_THRESHOLD * qualityRatio[2]
        THEN [gpu |-> moved, result |-> TRUE, rule |-> "quality"]
        ELSE [gpu |-> moved, result |-> FALSE, rule |-> "none"]

\* ShouldRebuildBVH.  Returns the new system, the bool result and the rule
\* that decided it.
ShouldRebuildBVH(gpu, objects) ==
    LET counted == [gpu EXCEPT !.m_framesSinceLastRebuild = @ + 1]
        positions == Array([i \in 0 .. Size(objects) - 1 |-> GetPosition(objects[i])])
        frameMovement == SumMovement(objects, gpu.m_previousPositions, Size(objects))
        moved == [counted EXCEPT
                    !.m_previousPositions =
                        Array([i \in 0 .. Size(objects) - 1 |->
                                  IF objects[i].isDynamic THEN positions[i] ELSE @[i]]),
                    !.m_accumulatedMovement = @ + frameMovement]
        qualityRatio == CalculateBVHQuality(moved)
    IN  IF counted.m_framesSinceLastRebuild >= MAX_FRAMES_BETWEEN_REBUILDS
        THEN [gpu |-> counted, result |-> TRUE, rule |-> "frames"]
        ELSE IF Size(gpu.m_previousPositions) # Size(objects)
        THEN [gpu |-> [counted EXCEPT !.m_previousPositions = positions],
              result |-> FALSE, rule |-> "first"]
        ELSE IF moved.m_accumulatedMovement > REBUILD_THRESHOLD
        THEN [gpu |-> moved, result |-> TRUE, rule |-> "movement"]
        ELSE IF qualityRatio[1] > BVH_QUALITY_THRESHOLD * qualityRatio[2]
        THEN [gpu |-> moved, result |-> TRUE, rule |-> "quality"]
        ELSE [gpu |-> moved, result |-> FALSE, rule |-> "none"]

(***************************************************************************)
(* GPUBVHSystem: frustum culling.                                          *)
(***************************************************************************)
ZeroNode == BVHNode(VecZero, VecZero, 0, 0, 0, FALSE)

\* A faulty iteration that pushes the children without testing stackPtr.
CullStepPushesUnguarded(nodes, frustum, params, objIdx, s) ==
    IF s.done THEN s
    ELSE IF ~(Len(s.stack) > 0 /\ Len(s.stack) < 64) THEN [s EXCEPT !.done = TRUE]
    ELSE LET nodeIndex == s.stack[Len(s.stack)]
             popped == SubSeq(s.stack, 1, Len(s.stack) - 1)
             node == IF nodeIndex \in DOMAIN nodes THEN nodes[nodeIndex] ELSE ZeroNode
             pushedRight == IF node.rightChild >= 0
                            THEN Append(popped, node.rightChild) ELSE popped
             pushedLeft == IF node.leftChild >= 0
                           THEN Append(pushedRight, node.leftChild) ELSE pushedRight
         IN  IF nodeIndex < 0 \/ nodeIndex >= params.nodeCount
             THEN [s EXCEPT !.stack = popped]
             ELSE IF ~IsBoxInFrustum(frustum, node.minBounds, node.maxBounds)
             THEN [s EXCEPT !.stack = popped]
             ELSE IF node.isLeaf
             THEN (IF node.objectIndex = objIdx
                   THEN [stack |-> popped, visible |-> 1, done |-> TRUE]
                   ELSE [s EXCEPT !.stack = popped])
             ELSE [s EXCEPT !.stack = pushedLeft]

\* One iteration of the while loop of the culling kernel for object objIdx.
\* s holds the traversal stack (top last), the value written to
\* Visibility[objIdx] so far, and whether the loop has been left.
CullStep(nodes, frustum, params, objIdx, s) ==
    IF s.done THEN s
    ELSE IF ~(Len(s.stack) > 0 /\ Len(s.stack) < 64) THEN [s EXCEPT !.done = TRUE]
    ELSE LET nodeIndex == s.stack[Len(s.stack)]
             popped == SubSeq(s.stack, 1, Len(s.stack) - 1)
             node == IF nodeIndex \in DOMAIN nodes THEN nodes[nodeIndex] ELSE ZeroNode
             pushedRight == IF node.rightChild >= 0 /\ Len(popped) < 63
                            THEN Append(popped, node.rightChild) ELSE popped
             pushedLeft == IF node.leftChild >= 0 /\ Len(pushedRight) < 63
                           THEN Append(pushedRight, node.leftChild) ELSE pushedRight
         IN  IF nodeIndex < 0 \/ nodeIndex >= params.nodeCount
             THEN [s EXCEPT !.stack = popped]
             ELSE IF ~IsBoxInFrustum(frustum, node.minBounds, node.maxBounds)
             THEN [s EXCEPT !.stack = popped]
             ELSE IF node.isLeaf
             THEN (IF node.objectIndex = objIdx
                   THEN [stack |-> popped, visible |-> 1, done |-> TRUE]
                   ELSE [s EXCEPT !.stack = popped])
             ELSE [s EXCEPT !.stack = pushedLeft]

\* 2^k iterations from s, stopping when the loop has been left or comes back
\* to the state mark.
RECURSIVE CullRun(_, _, _, _, _, _, _)
CullRun(nodes, frustum, params, objIdx, s, mark, k) ==
    IF k = 0
    THEN LET t == CullStep(nodes, frustum, params, objIdx, s)
         IN  [state |-> t, repeats |-> ~t.done /\ t = mark]
    ELSE LET half == CullRun(nodes, frustum, params, objIdx, s, mark, k - 1)
         IN  IF half.repeats \/ half.state.done THEN half
             ELSE CullRun(nodes, frustum, params, objIdx, half.state, mark, k - 1)

\* The while loop: the value left in Visibility[objIdx], or -1 when the loop
\* does not end.  The loop is deterministic, so it does not end iff it comes
\* back to a state it has been in; the states are compared with the one at
\* the start of runs of 1, 2, 4, ... iterations.  A loop still running after
\* 2^MaxCullRuns iterations counts as not ending.
RECURSIVE CullTraverse(_, _, _, _, _, _)
CullTraverse(nodes, frustum, params, objIdx, s, k) ==
    LET run == CullRun(nodes, frustum, params, objIdx, s, s, k)
    IN  IF run.state.done THEN run.state.visible
        ELSE IF run.repeats \/ k >= MaxCullRuns THEN -1
        ELSE CullTraverse(nodes, frustum, params, objIdx, run.state, k + 1)

\* main of the culling kernel for object objIdx: the value of
\* Visibility[objIdx] after the Dispatch, -1 if the thread never finishes.
CullObject(gpu, frustum, params, objIdx) ==
    IF gpu.ObjectData[objIdx].occludedFrameCount <= 2
    THEN IF params.rootNodeIndex >= 0
         THEN CullTraverse(gpu.BVHNodes, frustum, params, objIdx,
                           [stack |-> <<params.rootNodeIndex>>, visible |-> 0,
                            done |-> FALSE], 0)
         ELSE 0
    ELSE gpu.Visibility[objIdx]

\* GPUBVHSystem::PerformFrustumCulling: the outcomes of the call, each the
\* new system, the objects and the bool result.  The readback Map either
\* succeeds (the flags are copied into the objects), reports that the GPU
\* is still drawing (the objects keep their flags), or fails with another
\* error, as it always does when a kernel thread never finished.  The field
\* readback records which of the three the last Map was.
GPUPerformFrustumCulling(gpu, frustum, objects) ==
    IF "frustumCullingCS" \notin gpu.shaders \/ Size(objects) = 0 \/ ~gpu.buffers
    THEN {[gpu |-> gpu, objects |-> objects, result |-> FALSE]}
    ELSE LET up == UpdateGPUObjectData(gpu, objects)
             params == [rootNodeIndex |-> 0, objectCount |-> Size(objects),
                        nodeCount |-> Size(objects) * 2 - 1]
             withParams == [up EXCEPT !.cullingParams = params]
             flags == Array([i \in 0 .. Size(objects) - 1 |->
                                CullObject(withParams, frustum, params, i)])
             done == [withParams EXCEPT !.Visibility = flags]
             Mapped(g, hr) == [g EXCEPT !.readback = hr]
         IN  IF \E i \in DOMAIN flags : flags[i] = -1
             THEN {[gpu |-> Mapped(withParams, "failed"), objects |-> objects,
                    result |-> FALSE]}
             ELSE {[gpu |-> Mapped(done, "ready"),
                    objects |-> Array([i \in DOMAIN objects |->
                                          [objects[i] EXCEPT !.visible = (flags[i] # 0)]]),
                    result |-> TRUE],
                   [gpu |-> Mapped(done, "pending"), objects |-> objects, result |-> TRUE],
                   [gpu |-> Mapped(done, "failed"), objects |-> objects, result |-> FALSE]}

\* The values an int of a buffer created without initial data can hold.
UndefinedInts == {0, 1048576}

\* GPUBVHSystem::Initialize: compiled is the number of kernels that compile
\* (CreateComputeShaders stops at the first failure), fill the contents of
\* the buffers D3D11 leaves undefined.
GPUInitialize(objectCount, compiled, fill) ==
    LET names == <<"mortonCodeCS", "bvhConstructionCS", "frustumCullingCS", "bvhRefitCS">>
        ok == compiled = 4 /\ objectCount > 0
    IN  [gpu |-> [m_objectCount |-> objectCount,
                  shaders |-> {names[k] : k \in 1 .. compiled},
                  buffers |-> ok,
                  m_needsRebuild |-> TRUE,
                  m_framesSinceLastRebuild |-> 0,
                  m_accumulatedMovement |-> 0,
                  m_previousPositions |-> EmptyArray,
                  m_initialBVHSurfaceArea |-> 0,
                  m_currentBVHSurfaceArea |-> 0,
                  ObjectData |-> EmptyArray,
                  BVHNodes |-> EmptyArray,
                  Visibility |-> Array([i \in 0 .. objectCount - 1 |-> fill]),
                  readback |-> "none",
                  cullingParams |-> [rootNodeIndex |-> fill, objectCount |-> fill,
                                     nodeCount |-> fill]],
         result |-> ok]

(***************************************************************************)
(* DXGame: objects and scene bounds.                                       *)
(***************************************************************************)
\* A RenderObject as CreateRenderObjects sets it up: a cube of edge size at
\* position, with an occlusion query if CreateOcclusionQueries created one.
\* A dynamic object starts at its animation centre; orbit is the set of x
\* offsets cos(animationTime) * animationRadius the animation is sampled at
\* (the z offset sin(animationTime) * animationRadius is sampled at 0).
RenderObject(position, size, isDynamic, orbit, query) ==
    UpdateBounds([world |-> position,
                  minBounds |-> VecZero,
                  maxBounds |-> VecZero,
                  visible |-> TRUE,
                  occlusionQuery |-> query,
                  queryInProgress |-> FALSE,
                  occludedFrameCount |-> 0,
                  isDynamic |-> isDynamic,
                  velocity |-> VecZero,
                  previousPosition |-> VecZero,
                  movementDistance |-> 0,
                  baseSize |-> <<size, size, size>>,
                  animationCenter |-> position,
                  orbit |-> orbit])

\* The circular motion of UpdateDynamicObjects at the sampled offset.
NewPosition(obj, offset) == VecAdd(obj.animationCenter, <<offset, 0, 0>>)

\* GPUBVHSystem::UpdateDynamicObjects; next[i] is the sampled offset of
\* object i and rate = 1 / deltaTime.
GPUUpdateDynamicObjects(objects, next, rate) ==
    Array([i \in DOMAIN objects |->
              IF objects[i].isDynamic
              THEN LET obj == objects[i]
                       previousPosition == GetPosition(obj)
                       newPosition == NewPosition(obj, next[i])
                       movement == VecSub(newPosition, previousPosition)
                   IN  UpdateBounds([obj EXCEPT
                           !.previousPosition = previousPosition,
                           !.movementDistance = Length(movement),
                           !.world = newPosition,
                           !.velocity = <<movement[1] * rate, movement[2] * rate,
                                          movement[3] * rate>>])
              ELSE objects[i]])

\* The fallback loop of DXGame::UpdateDynamicObjects (no velocity update).
CPUUpdateDynamicObjects(objects, next) ==
    Array([i \in DOMAIN objects |->
              IF objects[i].isDynamic
              THEN LET obj == objects[i]
                       newPosition == NewPosition(obj, next[i])
                       currentPos == GetPosition(obj)
                   IN  UpdateBounds([obj EXCEPT
                           !.movementDistance = Length(VecSub(newPosition, currentPos)),
                           !.previousPosition = currentPos,
                           !.world = newPosition])
              ELSE objects[i]])

\* Scene bounds are kept in units of 1/2000 (a twentieth of a hundredth), so
\* that the paddings sceneSize * 0.1f, velocity * 0.1f and maxVelocity * 0.2f
\* are integers.
Scale(v) == <<20 * v[1], 20 * v[2], 20 * v[3]>>

RECURSIVE SceneFold(_, _)
SceneFold(objects, n) ==
    IF n = 1 THEN Bounds(Scale(objects[0].minBounds), Scale(objects[0].maxBounds))
    ELSE LET rest == SceneFold(objects, n - 1)
             obj == objects[n - 1]
             objMinBounds == Scale(obj.minBounds)
             objMaxBounds == Scale(obj.maxBounds)
             velocityPadding == <<2 * obj.velocity[1], 2 * obj.velocity[2],
                                  2 * obj.velocity[3]>>
             predictedMin == IF obj.isDynamic
                             THEN VecMin(objMinBounds, VecAdd(objMinBounds, velocityPadding))
                             ELSE objMinBounds
             predictedMax == IF obj.isDynamic
                             THEN VecMax(objMaxBounds, VecAdd(objMaxBounds, velocityPadding))
                             ELSE objMaxBounds
         IN  Bounds(VecMin(rest.minBounds, predictedMin),
                    VecMax(rest.maxBounds, predictedMax))

RECURSIVE MaxVelocity(_, _)
MaxVelocity(objects, n) ==
    IF n = 0 THEN 0
    ELSE MaxInt(MaxVelocity(objects, n - 1),
                IF objects[n - 1].isDynamic THEN Length(objects[n - 1].velocity) ELSE 0)

\* DXGame::UpdateSceneBounds.
UpdateSceneBounds(objects) ==
    IF Size(objects) = 0 THEN Bounds(VecZero, VecZero)
    ELSE LET hull == SceneFold(objects, Size(objects))
             sceneSize == VecSub(hull.maxBounds, hull.minBounds)
             basePadding == <<sceneSize[1] \div 10, sceneSize[2] \div 10,
                              sceneSize[3] \div 10>>
             maxVelocity == MaxVelocity(objects, Size(objects))
             totalPadding == VecAdd(basePadding,
                                    <<4 * maxVelocity, 4 * maxVelocity, 4 * maxVelocity>>)
             padded == Bounds(VecSub(hull.minBounds, totalPadding),
                              VecAdd(hull.maxBounds, totalPadding))
             finalSize == VecSub(padded.maxBounds, padded.minBounds)
             sum == VecAdd(padded.minBounds, padded.maxBounds)
             center == <<sum[1] \div 2, sum[2] \div 2, sum[3] \div 2>>
             halfMinSize == <<1000, 1000, 1000>>
         IN  IF finalSize[1] < 2000 \/ finalSize[2] < 2000 \/ finalSize[3] < 2000
             THEN Bounds(VecSub(center, halfMinSize), VecAdd(center, halfMinSize))
             ELSE padded

(***************************************************************************)
(* State of the program.                                                   *)
(***************************************************************************)
VARIABLES
    m_objects,          \* DXGame::m_objects
    m_sceneMinBounds,   \* DXGame::m_sceneMinBounds (units of 1/2000)
    m_sceneMaxBounds,   \* DXGame::m_sceneMaxBounds (units of 1/2000)
    m_frustum,          \* DXGame::m_frustum
    m_useGPUBVH,        \* DXGame::m_useGPUBVH (the GPU system exists and is in use)
    m_bvhNeedsRebuild,  \* DXGame::m_bvhNeedsRebuild
    m_gpuBVH,           \* the GPUBVHSystem
    m_cpuBVH,           \* the CPUBVHSystem
    pc,                 \* the step of the frame the program is about to run
    decision,           \* history: the last ShouldRebuildBVH call of UpdateBVH
    culled,             \* history: the visible flags PerformCulling last left
    lastOp,             \* history: the last operation run and its result
    prevOp,             \* history: the operation run before the last one
    before,             \* history: the GPUBVHSystem before the last operation
    stage,              \* class-level runs: how far the calling sequence has got
    movesLeft,          \* class-level runs: object moves still allowed
    call                \* function-level runs: the function, its arguments, its result

vars == <<m_objects, m_sceneMinBounds, m_sceneMaxBounds, m_frustum, m_useGPUBVH,
          m_bvhNeedsRebuild, m_gpuBVH, m_cpuBVH, pc, decision, culled, lastOp,
          prevOp, before, stage, movesLeft, call>>

\* A camera looking along +x from x = 1.01, and a camera that sees
\* everything: the planes AllPass are satisfied by every box.
AllPass == <<0, 0, 0, 1>>

LookAlongX == <<<<1, 0, 0, 0 - 101>>, AllPass, AllPass, AllPass, AllPass, AllPass>>

SeeAll == <<AllPass, AllPass, AllPass, AllPass, AllPass, AllPass>>

\* A scene of the frame loop: the number of kernels that compile, whether
\* occlusion queries are created, the camera, and two cubes of edge 2.0, a
\* static one and a dynamic one animated over the offsets orbit.
Scene(compiled, query, frustum, orbit) ==
    [compiled |-> compiled, query |-> query, frustum |-> frustum,
     objects |-> Array([i \in 0 .. 1 |->
                    IF i = 0 THEN RenderObject(<<0 - 400, 0, 0>>, 200, FALSE, {}, query)
                    ELSE RenderObject(<<0, 0, 0>>, 200, TRUE, orbit, query)])]

\* The scenes of the model.  Without the GPU system the dynamic cube drifts
\* by steps of MOVEMENT_THRESHOLD; with it, it moves by steps of 1.0 or
\* jumps by 13.0.
Scenes ==
    {Scene(0, query, frustum, {0, 1}) : query \in BOOLEAN, frustum \in {LookAlongX, SeeAll}}
    \cup {Scene(4, FALSE, LookAlongX, orbit) : orbit \in {{0, 100}, {0, 1300}}}

NoDecision == [called |-> FALSE, result |-> FALSE, rule |-> "none",
               frames |-> 0, accumulated |-> 0]

NoOp == [name |-> "none", result |-> FALSE]

\* No function-level run.
NoCall == [name |-> "none", args |-> <<>>, result |-> 0]

\* The GPUBVHSystem pointer after InitializeBVHSystems reset it.
NoGPU == GPUInitialize(0, 0, 0).gpu

NoCPU == [m_bvhNodes |-> EmptyArray, m_rootNode |-> 0 - 1]

\* DXGame after Initialize: CreateRenderObjects, InitializeBVHSystems and
\* CalculateSceneBounds have run, the first frame has not.
InitFrom(scenes) ==
    \E scene \in scenes, fill \in UndefinedInts :
        LET init == GPUInitialize(Size(scene.objects), scene.compiled, fill)
            hull == SceneFold(Array([i \in DOMAIN scene.objects |->
                                       [scene.objects[i] EXCEPT !.isDynamic = FALSE]]),
                              Size(scene.objects))
            size == VecSub(hull.maxBounds, hull.minBounds)
            padding == <<size[1] \div 100, size[2] \div 100, size[3] \div 100>>
        IN  /\ m_objects = scene.objects
            /\ m_sceneMinBounds = VecSub(hull.minBounds, padding)
            /\ m_sceneMaxBounds = VecAdd(hull.maxBounds, padding)
            /\ m_frustum = scene.frustum
            /\ m_useGPUBVH = init.result
            /\ m_bvhNeedsRebuild = TRUE
            /\ m_gpuBVH = IF init.result THEN init.gpu ELSE NoGPU
            /\ (init.result \/ fill = 0)
            /\ m_cpuBVH = NoCPU
            /\ pc = "Update"
            /\ decision = NoDecision
            /\ culled = Array([i \in DOMAIN scene.objects |-> TRUE])
            /\ lastOp = NoOp
            /\ prevOp = NoOp
            /\ before = NoGPU
            /\ stage = 0
            /\ movesLeft = 0
            /\ call = NoCall

Init == InitFrom(Scenes)

(***************************************************************************)
(* The frame loop: DXGame::Update, then DXGame::Render.                    *)
(***************************************************************************)
\* 1 / m_deltaTime of the frames of the model.
FrameRates == {10}

\* The sampled offsets the dynamic objects can move to in one frame.
NextOffsets(objects) ==
    {next \in [DOMAIN objects -> UNION {objects[i].orbit : i \in DOMAIN objects} \cup {0}] :
        \A i \in DOMAIN objects :
            IF objects[i].isDynamic THEN next[i] \in objects[i].orbit ELSE next[i] = 0}

HasSignificantMovement(objects) ==
    \E i \in DOMAIN objects :
        objects[i].isDynamic /\ objects[i].movementDistance > MOVEMENT_THRESHOLD

\* A faulty UpdateBVH that refits the hierarchy it has just rebuilt.
UpdateBVHOutcomesRefitsToo(objects, sceneMin, sceneMax, useGPU, bvhNeedsRebuild, gpuBVH, cpuBVH) ==
    LET asked == useGPU /\ ~bvhNeedsRebuild
        should == ShouldRebuildBVH(gpuBVH, objects)
        gpu == IF asked THEN should.gpu ELSE gpuBVH
        needsRebuild == IF asked THEN should.result ELSE bvhNeedsRebuild
        made == IF asked
                THEN [called |-> TRUE, result |-> should.result, rule |-> should.rule,
                      frames |-> should.gpu.m_framesSinceLastRebuild,
                      accumulated |-> should.gpu.m_accumulatedMovement]
                ELSE [called |-> FALSE, result |-> FALSE, rule |-> "none",
                      frames |-> 0, accumulated |-> 0]
        Outcome(g, c, n, name, result) ==
            [gpu |-> g, cpu |-> c, bvhNeedsRebuild |-> n, decision |-> made,
             op |-> [name |-> name, result |-> result]]
    IN  IF needsRebuild
        THEN IF useGPU
             THEN UNION {IF built.result
                         THEN IF HasSignificantMovement(objects)
                              THEN {Outcome(refit.gpu, cpuBVH, FALSE, "BuildBVH", TRUE) :
                                    refit \in GPURefitBVH(built.gpu, objects)}
                              ELSE {Outcome(built.gpu, cpuBVH, FALSE, "BuildBVH", TRUE)}
                         ELSE {Outcome(built.gpu, CPUBuildBVH(cpuBVH, objects, tie), FALSE,
                                       "BuildBVH", FALSE) :
                               tie \in TieOrders(Size(objects))} :
                         built \in GPUBuildBVH(gpu, objects, sceneMin, sceneMax)}
             ELSE {Outcome(gpu, CPUBuildBVH(cpuBVH, objects, tie), FALSE, "BuildBVH", TRUE) :
                   tie \in TieOrders(Size(objects))}
        ELSE IF ~HasSignificantMovement(objects)
        THEN {Outcome(gpu, cpuBVH, bvhNeedsRebuild, "none", FALSE)}
        ELSE IF useGPU
        THEN {Outcome(refit.gpu, cpuBVH, IF refit.result THEN bvhNeedsRebuild ELSE TRUE,
                      "RefitBVH", refit.result) :
              refit \in GPURefitBVH(gpu, objects)}
        ELSE {Outcome(gpu, CPUBuildBVH(cpuBVH, objects, tie), bvhNeedsRebuild,
                      "BuildBVH", TRUE) :
              tie \in TieOrders(Size(objects))}

\* DXGame::UpdateBVH: the outcomes of the call, one per order std::sort can
\* leave equal keys in and per schedule of the refit threads.
UpdateBVHOutcomes(objects, sceneMin, sceneMax, useGPU, bvhNeedsRebuild, gpuBVH, cpuBVH) ==
    LET asked == useGPU /\ ~bvhNeedsRebuild
        should == ShouldRebuildBVH(gpuBVH, objects)
        gpu == IF asked THEN should.gpu ELSE gpuBVH
        needsRebuild == IF asked THEN should.result ELSE bvhNeedsRebuild
        made == IF asked
                THEN [called |-> TRUE, result |-> should.result, rule |-> should.rule,
                      frames |-> should.gpu.m_framesSinceLastRebuild,
                      accumulated |-> should.gpu.m_accumulatedMovement]
                ELSE [called |-> FALSE, result |-> FALSE, rule |-> "none",
                      frames |-> 0, accumulated |-> 0]
        Outcome(g, c, n, name, result) ==
            [gpu |-> g, cpu |-> c, bvhNeedsRebuild |-> n, decision |-> made,
             op |-> [name |-> name, result |-> result]]
    IN  IF needsRebuild
        THEN IF useGPU
             THEN UNION {IF built.result
                         THEN {Outcome(built.gpu, cpuBVH, FALSE, "BuildBVH", TRUE)}
                         ELSE {Outcome(built.gpu, CPUBuildBVH(cpuBVH, objects, tie), FALSE,
                                       "BuildBVH", FALSE) :
                               tie \in TieOrders(Size(objects))} :
                         built \in GPUBuildBVH(gpu, objects, sceneMin, sceneMax)}
             ELSE {Outcome(gpu, CPUBuildBVH(cpuBVH, objects, tie), FALSE, "BuildBVH", TRUE) :
                   tie \in TieOrders(Size(objects))}
        ELSE IF ~HasSignificantMovement(objects)
        THEN {Outcome(gpu, cpuBVH, bvhNeedsRebuild, "none", FALSE)}
        ELSE IF useGPU
        THEN {Outcome(refit.gpu, cpuBVH, IF refit.result THEN bvhNeedsRebuild ELSE TRUE,
                      "RefitBVH", refit.result) :
              refit \in GPURefitBVH(gpu, objects)}
        ELSE {Outcome(gpu, CPUBuildBVH(cpuBVH, objects, tie), bvhNeedsRebuild,
                      "BuildBVH", TRUE) :
              tie \in TieOrders(Size(objects))}

\* A faulty PerformCulling that also runs the CPU culling when the readback
\* was not ready.
PerformCullingOutcomesFallsBackWhenPending(objects, frustum, useGPU, gpuBVH, cpuBVH) ==
    IF useGPU
    THEN {[gpu |-> culling.gpu,
           objects |-> IF culling.result /\ culling.gpu.readback = "ready"
                       THEN culling.objects
                       ELSE CPUPerformFrustumCulling(cpuBVH, frustum, culling.objects)] :
          culling \in GPUPerformFrustumCulling(gpuBVH, frustum, objects)}
    ELSE {[gpu |-> gpuBVH, objects |-> CPUPerformFrustumCulling(cpuBVH, frustum, objects)]}

\* DXGame::PerformCulling: GPU culling, CPU culling if it is off or failed.
PerformCullingOutcomes(objects, frustum, useGPU, gpuBVH, cpuBVH) ==
    IF useGPU
    THEN {[gpu |-> culling.gpu,
           objects |-> IF culling.result THEN culling.objects
                       ELSE CPUPerformFrustumCulling(cpuBVH, frustum, culling.objects)] :
          culling \in GPUPerformFrustumCulling(gpuBVH, frustum, objects)}
    ELSE {[gpu |-> gpuBVH, objects |-> CPUPerformFrustumCulling(cpuBVH, frustum, objects)]}

\* DXGame::ProcessOcclusionQueries.  GetData on a query in progress answers
\* S_FALSE ("pending"), S_OK with no samples ("occluded") or S_OK with
\* samples ("drawn").
QueryAnswers(objects) ==
    {answer \in [DOMAIN objects -> {"pending", "occluded", "drawn"}] :
        \A i \in DOMAIN objects :
            /\ ~(objects[i].occlusionQuery /\ objects[i].queryInProgress)
                  => answer[i] = "pending"
            /\ answer[i] = "occluded" => objects[i].occludedFrameCount < MaxOccluded}

ProcessOcclusionQueries(objects, answer) ==
    Array([i \in DOMAIN objects |->
              LET obj == objects[i]
              IN  IF answer[i] = "occluded"
                  THEN [obj EXCEPT !.queryInProgress = FALSE,
                                   !.occludedFrameCount = @ + 1,
                                   !.visible =
                                       IF obj.occludedFrameCount + 1 >= OCCLUSION_FRAME_THRESHOLD
                                       THEN FALSE ELSE @]
                  ELSE IF answer[i] = "drawn"
                  THEN [obj EXCEPT !.queryInProgress = FALSE, !.occludedFrameCount = 0]
                  ELSE obj])

\* DXGame::Update.  UpdateInput and UpdateCamera leave the camera where it
\* is (m_fpsMode is false), so UpdateFrustum recomputes the same frustum.
UpdateFrame ==
    /\ pc = "Update"
    /\ \E next \in NextOffsets(m_objects), rate \in FrameRates :
          LET moved == IF m_useGPUBVH
                       THEN GPUUpdateDynamicObjects(m_objects, next, rate)
                       ELSE CPUUpdateDynamicObjects(m_objects, next)
              scene == UpdateSceneBounds(moved)
          IN  \E bvh \in UpdateBVHOutcomes(moved, scene.minBounds, scene.maxBounds,
                                           m_useGPUBVH, m_bvhNeedsRebuild, m_gpuBVH,
                                           m_cpuBVH) :
              \E culling \in PerformCullingOutcomes(moved, m_frustum, m_useGPUBVH,
                                                    bvh.gpu, bvh.cpu) :
              \E answer \in QueryAnswers(culling.objects) :
                  /\ m_sceneMinBounds' = scene.minBounds
                  /\ m_sceneMaxBounds' = scene.maxBounds
                  /\ m_bvhNeedsRebuild' = bvh.bvhNeedsRebuild
                  /\ m_cpuBVH' = bvh.cpu
                  /\ decision' = bvh.decision
                  /\ lastOp' = bvh.op
                  /\ m_gpuBVH' = culling.gpu
                  /\ culled' = Array([i \in DOMAIN m_objects |-> culling.objects[i].visible])
                  /\ m_objects' = ProcessOcclusionQueries(culling.objects, answer)
    /\ pc' = "Render"
    /\ UNCHANGED <<m_frustum, m_useGPUBVH, prevOp, movesLeft, call>>

Update == UpdateFrame /\ UNCHANGED <<before, stage>>

\* DXGame::Render: a query is begun for every visible object that has none
\* in progress, and dropped for every object that is not visible.
Render ==
    /\ pc = "Render"
    /\ m_objects' =
          Array([i \in DOMAIN m_objects |->
                    LET obj == m_objects[i]
                    IN  IF obj.visible
                        THEN [obj EXCEPT !.queryInProgress = @ \/ obj.occlusionQuery]
                        ELSE [obj EXCEPT !.queryInProgress = FALSE]])
    /\ pc' = "Update"
    /\ UNCHANGED <<m_sceneMinBounds, m_sceneMaxBounds, m_frustum, m_useGPUBVH,
                   m_bvhNeedsRebuild, m_gpuBVH, m_cpuBVH, decision, culled, lastOp,
                   prevOp, before, stage, movesLeft, call>>

Next ==
    \/ Update
    \/ Render

Spec == Init /\ [][Next]_vars

\* The frame loop over a scene of two cubes of edge 0.2, 4.0 apart on x, the
\* second one animated by steps of 1.0: the scene is 4.2 long on x and 0.2
\* thick on y and z.
SmallCubeScenes ==
    {[compiled |-> 4, query |-> FALSE, frustum |-> frustum,
      objects |-> Array([i \in 0 .. 1 |->
                     IF i = 0 THEN RenderObject(<<0 - 400, 0, 0>>, 20, FALSE, {}, FALSE)
                     ELSE RenderObject(<<0, 0, 0>>, 20, TRUE, {0, 100}, FALSE)])] :
     frustum \in {LookAlongX}}

SpecSmallCubes == InitFrom(SmallCubeScenes) /\ [][Next]_vars

\* The frame loop with the GPU system and occlusion queries: the dynamic cube
\* moves by steps of 1.0 in and out of the frustum of the camera looking
\* along +x.
QueryScenes == {Scene(4, TRUE, LookAlongX, {0, 100})}

\* The frames of a run of MaxFrames frames, counted in stage; before is the
\* GPU system as the frame before left it.
CountedUpdate ==
    /\ stage < MaxFrames
    /\ UpdateFrame
    /\ before' = m_gpuBVH
    /\ stage' = stage + 1

NextQueries ==
    \/ CountedUpdate
    \/ Render

SpecQueries == InitFrom(QueryScenes) /\ [][NextQueries]_vars

(***************************************************************************)
(* Class-level runs: the operations of CPUBVHSystem and GPUBVHSystem       *)
(* called by a client on object sets drawn from a bounded family.  The     *)
(* client builds, culls, moves objects, asks ShouldRebuildBVH, and then    *)
(* builds again or refits up to twice, leaving out any step.  The scene    *)
(* bounds passed to BuildBVH are those UpdateSceneBounds computes for the  *)
(* objects, as in the frame loop.                                          *)
(***************************************************************************)
\* Dynamic cubes at the coordinates at[0], at[1], ...  The first cube of a
\* place has edge 2.0, the next ones are larger by 1.0 each, so cubes with
\* the same centre (and Morton code) have different boxes.
Cubes(at) ==
    Array([i \in DOMAIN at |->
              RenderObject(<<Spacing * at[i], 0, 0>>,
                           200 + 100 * Cardinality({j \in 0 .. i - 1 : at[j] = at[i]}),
                           TRUE, {}, FALSE)])

\* Up to MaxObjects cubes at coordinates that start at 0 and rise by 0 or 1
\* from one cube to the next, at most two in one place.
ObjectSets ==
    UNION {{Cubes(at) :
            at \in {a \in [0 .. n - 1 -> 0 .. MaxCoord] :
                      /\ n > 0 => a[0] = 0
                      /\ \A i \in 0 .. n - 2 : a[i + 1] - a[i] \in {0, 1}
                      /\ \A i \in 0 .. n - 3 : a[i + 2] # a[i]}} :
           n \in 0 .. MaxObjects}

\* Up to MaxObjects cubes, all in one place.
SamePlaceSets == {Cubes([i \in 0 .. n - 1 |-> 0]) : n \in 1 .. MaxObjects}

\* The steps of the calling sequence, in order; stage is the position of the
\* last step taken.
Steps == <<"Started", "Built", "Culled", "Moved", "Asked", "Refitted", "RefittedTwice",
           "Rebuilt", "CulledAgain">>
Step(name) == CHOOSE k \in 1 .. Len(Steps) : Steps[k] = name
Started == Step("Started")
Built == Step("Built")
Culled == Step("Culled")
Moved == Step("Moved")
Asked == Step("Asked")
Refitted == Step("Refitted")
RefittedTwice == Step("RefittedTwice")
Rebuilt == Step("Rebuilt")

\* The client's state before its first call.
InitWith(objects, frustum, useGPU, compiled, fill) ==
    /\ m_objects = objects
    /\ m_sceneMinBounds = VecZero
    /\ m_sceneMaxBounds = VecZero
    /\ m_frustum = frustum
    /\ m_useGPUBVH = useGPU
    /\ m_bvhNeedsRebuild = TRUE
    /\ m_gpuBVH = IF useGPU THEN GPUInitialize(Size(objects), compiled, fill).gpu
                  ELSE NoGPU
    /\ m_cpuBVH = NoCPU
    /\ pc = "API"
    /\ decision = NoDecision
    /\ culled = Array([i \in DOMAIN objects |-> TRUE])
    /\ lastOp = NoOp
    /\ prevOp = NoOp
    /\ before = NoGPU
    /\ stage = Started
    /\ movesLeft = MaxMoves
    /\ call = NoCall

\* A system whose Initialize succeeded, or failed after compiling the first
\* kernel only; on the CPU backend there is no GPU system.
InitAPI ==
    \E objects \in ObjectSets, useGPU \in BOOLEAN, compiled \in {1, 4},
       fill \in UndefinedInts :
        /\ useGPU \/ (compiled = 4 /\ fill = 0)
        /\ compiled = 4 \/ fill = 0
        /\ InitWith(objects, LookAlongX, useGPU, compiled, fill)

\* An initialized GPU system for cubes in one place, all of them in view.
InitSamePlace ==
    \E objects \in SamePlaceSets, fill \in UndefinedInts :
        InitWith(objects, SeeAll, TRUE, 4, fill)

\* The bookkeeping of one call.
Called(name, result, next) ==
    /\ pc = "API"
    /\ stage' = next
    /\ lastOp' = [name |-> name, result |-> result]
    /\ prevOp' = lastOp
    /\ before' = m_gpuBVH

CallCPUBuildBVH ==
    /\ ~m_useGPUBVH
    /\ stage < Rebuilt
    /\ \E tie \in TieOrders(Size(m_objects)) :
          m_cpuBVH' = CPUBuildBVH(m_cpuBVH, m_objects, tie)
    /\ Called("CPUBuildBVH", TRUE, IF stage = Started THEN Built ELSE Rebuilt)
    /\ UNCHANGED <<m_objects, m_sceneMinBounds, m_sceneMaxBounds, m_frustum, m_useGPUBVH,
                   m_bvhNeedsRebuild, m_gpuBVH, pc, decision, culled, movesLeft, call>>

CallCPUPerformFrustumCulling ==
    /\ ~m_useGPUBVH
    /\ stage \in {Built, Rebuilt}
    /\ m_objects' = CPUPerformFrustumCulling(m_cpuBVH, m_frustum, m_objects)
    /\ culled' = Array([i \in DOMAIN m_objects |-> m_objects'[i].visible])
    /\ Called("CPUPerformFrustumCulling", TRUE, stage + 1)
    /\ UNCHANGED <<m_sceneMinBounds, m_sceneMaxBounds, m_frustum, m_useGPUBVH,
                   m_bvhNeedsRebuild, m_gpuBVH, m_cpuBVH, pc, decision, movesLeft, call>>

CallBuildBVH ==
    /\ m_useGPUBVH
    /\ stage < Refitted
    /\ LET scene == UpdateSceneBounds(m_objects)
       IN  /\ m_sceneMinBounds' = scene.minBounds
           /\ m_sceneMaxBounds' = scene.maxBounds
           /\ \E built \in GPUBuildBVH(m_gpuBVH, m_objects, scene.minBounds,
                                       scene.maxBounds) :
                 /\ m_gpuBVH' = built.gpu
                 /\ Called("BuildBVH", built.result,
                           IF stage = Started THEN Built ELSE Rebuilt)
    /\ UNCHANGED <<m_objects, m_frustum, m_useGPUBVH, m_bvhNeedsRebuild, m_cpuBVH, pc,
                   decision, culled, movesLeft, call>>

CallPerformFrustumCulling ==
    /\ m_useGPUBVH
    /\ stage = Built
    /\ \E culling \in GPUPerformFrustumCulling(m_gpuBVH, m_frustum, m_objects) :
          /\ m_gpuBVH' = culling.gpu
          /\ m_objects' = culling.objects
          /\ culled' = Array([i \in DOMAIN m_objects |-> culling.objects[i].visible])
          /\ Called("PerformFrustumCulling", culling.result, Culled)
    /\ UNCHANGED <<m_sceneMinBounds, m_sceneMaxBounds, m_frustum, m_useGPUBVH,
                   m_bvhNeedsRebuild, m_cpuBVH, pc, decision, movesLeft, call>>

\* The client moves one object to another coordinate.
MoveObject ==
    /\ pc = "API"
    /\ stage \in Built .. Moved
    /\ movesLeft > 0
    /\ \E i \in DOMAIN m_objects, to \in 0 .. MaxCoord :
          /\ m_objects[i].world # <<Spacing * to, 0, 0>>
          /\ m_objects' = [m_objects EXCEPT
                             ![i] = UpdateBounds([@ EXCEPT !.world = <<Spacing * to, 0, 0>>])]
    /\ movesLeft' = movesLeft - 1
    /\ stage' = Moved
    /\ lastOp' = [name |-> "MoveObject", result |-> TRUE]
    /\ prevOp' = lastOp
    /\ UNCHANGED <<m_sceneMinBounds, m_sceneMaxBounds, m_frustum, m_useGPUBVH,
                   m_bvhNeedsRebuild, m_gpuBVH, m_cpuBVH, pc, decision, culled, before, call>>

CallShouldRebuildBVH ==
    /\ m_useGPUBVH
    /\ stage \in Built .. Asked
    /\ m_gpuBVH.m_framesSinceLastRebuild < MaxPolicyCalls
    /\ LET should == ShouldRebuildBVH(m_gpuBVH, m_objects)
       IN  /\ m_gpuBVH' = should.gpu
           /\ decision' = [called |-> TRUE, result |-> should.result,
                           rule |-> should.rule,
                           frames |-> should.gpu.m_framesSinceLastRebuild,
                           accumulated |-> should.gpu.m_accumulatedMovement]
           /\ Called("ShouldRebuildBVH", should.result, Asked)
    /\ UNCHANGED <<m_objects, m_sceneMinBounds, m_sceneMaxBounds, m_frustum, m_useGPUBVH,
                   m_bvhNeedsRebuild, m_cpuBVH, pc, culled, movesLeft, call>>

CallRefitBVH ==
    /\ m_useGPUBVH
    /\ stage \in Built .. Refitted
    /\ \E refit \in GPURefitBVH(m_gpuBVH, m_objects) :
          /\ m_gpuBVH' = refit.gpu
          /\ Called("RefitBVH", refit.result,
                    IF stage = Refitted THEN RefittedTwice ELSE Refitted)
    /\ UNCHANGED <<m_objects, m_sceneMinBounds, m_sceneMaxBounds, m_frustum, m_useGPUBVH,
                   m_bvhNeedsRebuild, m_cpuBVH, pc, decision, culled, movesLeft, call>>

NextAPI ==
    \/ CallCPUBuildBVH
    \/ CallCPUPerformFrustumCulling
    \/ CallBuildBVH
    \/ CallPerformFrustumCulling
    \/ MoveObject
    \/ CallShouldRebuildBVH
    \/ CallRefitBVH

SpecAPI == InitAPI /\ [][NextAPI]_vars

NextGPU ==
    \/ CallBuildBVH
    \/ CallPerformFrustumCulling
    \/ MoveObject
    \/ CallShouldRebuildBVH
    \/ CallRefitBVH

SpecSamePlace == InitSamePlace /\ [][NextGPU]_vars

(***************************************************************************)
(* Culling runs: one build and one culling call of either system, on       *)
(* object sets and frusta drawn from a bounded family.                     *)
(***************************************************************************)
\* Six cubes of edge 2.0 in a grid of two columns (x = -Spacing, Spacing)
\* and three rows (z = 0, Spacing, 2 * Spacing); object i is in column
\* i % 2 and row i / 2.
Grid ==
    Array([i \in 0 .. 5 |->
              RenderObject(<<Spacing * (2 * (i % 2) - 1), 0, Spacing * (i \div 2)>>,
                           200, FALSE, {}, FALSE)])

\* Object sets with a box that UpdateBounds computes from a negative
\* baseSize (min > max on every axis): alone, and after an ordinary cube.
InvertedSets ==
    {Array([i \in 0 .. n - 1 |->
               IF i = n - 1 THEN RenderObject(<<Spacing * i, 0, 0>>, 0 - 200, FALSE, {}, FALSE)
               ELSE RenderObject(<<Spacing * i, 0, 0>>, 200, FALSE, {}, FALSE)]) :
        n \in 1 .. 2}

CullSets == ObjectSets \cup SamePlaceSets \cup {Grid} \cup InvertedSets

\* Frusta bounded along x by the first plane and along z by the last: the
\* bounds are none, x <= 0 (the left half of the grid), x >= 1.01, x <= -3.0
\* (no object of the family), z <= 1.0 and z >= 2.5.
CullFrustums ==
    {<<xPlane, AllPass, AllPass, AllPass, AllPass, zPlane>> :
        xPlane \in {AllPass, <<0 - 1, 0, 0, 0>>, <<1, 0, 0, 0 - 101>>, <<0 - 1, 0, 0, 0 - 300>>},
        zPlane \in {AllPass, <<0, 0, 0 - 1, 100>>, <<0, 0, 1, 0 - 250>>}}

InitCull ==
    \E objects \in CullSets, frustum \in CullFrustums, useGPU \in BOOLEAN,
       fill \in UndefinedInts :
        /\ useGPU \/ fill = 0
        /\ InitWith(objects, frustum, useGPU, 4, fill)

NextCull ==
    \/ CallCPUBuildBVH
    \/ CallCPUPerformFrustumCulling
    \/ CallBuildBVH
    \/ CallPerformFrustumCulling

SpecCull == InitCull /\ [][NextCull]_vars

(***************************************************************************)
(* Well-formed hierarchies.                                                *)
(***************************************************************************)
\* The number of paths of at most fuel edges that lead from node n to node
\* target along leftChild / rightChild.
RECURSIVE PathCount(_, _, _, _)
PathCount(nodes, n, target, fuel) ==
    (IF n = target THEN 1 ELSE 0)
    + (IF fuel = 0 \/ n \notin DOMAIN nodes THEN 0
       ELSE IF nodes[n].isLeaf THEN 0
       ELSE PathCount(nodes, nodes[n].leftChild, target, fuel - 1)
            + PathCount(nodes, nodes[n].rightChild, target, fuel - 1))

\* nodes is a binary tree over n objects rooted at root: n leaves, one per
\* object, n - 1 internal nodes with two distinct children in the array, and
\* every node on exactly one path from the root.
IsBinaryTree(nodes, root, n) ==
    LET leaves == {k \in DOMAIN nodes : nodes[k].isLeaf}
        internal == DOMAIN nodes \ leaves
    IN  /\ Size(nodes) = 2 * n - 1
        /\ Cardinality(leaves) = n
        /\ Cardinality(internal) = n - 1
        /\ \A i \in 0 .. n - 1 :
              Cardinality({k \in leaves : nodes[k].objectIndex = i}) = 1
        /\ \A k \in internal :
              /\ nodes[k].leftChild \in DOMAIN nodes
              /\ nodes[k].rightChild \in DOMAIN nodes
              /\ nodes[k].leftChild # nodes[k].rightChild
        /\ root \in DOMAIN nodes
        /\ \A k \in DOMAIN nodes : PathCount(nodes, root, k, Size(nodes)) = 1

(***************************************************************************)
(* Function-level runs: a function of the program applied once to          *)
(* arguments drawn from a bounded family.  call holds the function's name, *)
(* its arguments and, once pc is "Returned", its result.                   *)
(***************************************************************************)
\* Planes with normal components in {-1, 0, 1} and integer offsets.
Planes ==
    {<<x, y, z, w>> : x \in {-1, 0, 1}, y \in {-1, 0, 1}, z \in {-1, 0, 1},
                      w \in (0 - MaxPlane) .. MaxPlane}

\* The frustum of a cube camera volume: |x|, |y|, |z| <= half.
CubeFrustum(half) ==
    <<<<1, 0, 0, half>>, <<0 - 1, 0, 0, half>>, <<0, 0 - 1, 0, half>>,
      <<0, 1, 0, half>>, <<0, 0, 1, half>>, <<0, 0, 0 - 1, half>>>>

\* Six planes: any plane first or last among five equal planes that every
\* box passes or that every box of the family fails, and the cube frusta.
Frustums ==
    {[i \in 1 .. 6 |-> IF i = k THEN p ELSE q] :
        p \in Planes, k \in {1, 6}, q \in {AllPass, <<0, 0, 0, 0 - 1>>}}
    \cup {CubeFrustum(half) : half \in 0 .. MaxPlane}

\* Boxes with min <= max on every axis.
Boxes ==
    LET range == (0 - MaxPlane) .. MaxPlane
        zRanges == {<<0 - MaxPlane, 0 - MaxPlane>>, <<0 - MaxPlane, MaxPlane>>,
                    <<0, MaxPlane>>}
    IN  {<<<<x[1], y[1], z[1]>>, <<x[2], y[2], z[2]>>>> :
            x \in {r \in range \X range : r[1] <= r[2]},
            y \in {r \in range \X range : r[1] <= r[2]},
            z \in zRanges}

\* Quantized coordinates of the Morton kernel: every x, and for y and z the
\* ends of the range and the values with alternating bits.
MortonPositions ==
    {<<x, y, z>> : x \in 0 .. 1023, y \in {0, 341, 682, 1023}, z \in {0, 1, 682, 1023}}

\* Morton code buffers as the Morton kernel leaves them: record i carries
\* objectIndex i; the keys are drawn from keys.
CodeBuffers(keys) ==
    UNION {{Array([i \in 0 .. n - 1 |-> [mortonCode |-> k[i], objectIndex |-> i]]) :
            k \in [0 .. n - 1 -> keys]} : n \in 1 .. MaxObjects}

\* The buffers SortMortonCodes is applied to.
UnsortedCodes == CodeBuffers({0, 1, 5})

\* Buffers in ascending key order with a range first <= last, as the
\* construction kernel passes them to findSplit.
SortedRanges ==
    {<<codes, first, last>> :
        codes \in {c \in CodeBuffers(0 .. MaxKey) :
                      \A i \in 0 .. Size(c) - 2 : c[i].mortonCode <= c[i + 1].mortonCode},
        first \in 0 .. MaxObjects - 1, last \in 0 .. MaxObjects - 1}

\* The objects after at most one of them moved to another coordinate.
OneMove(objects) ==
    {objects} \cup
    {[objects EXCEPT ![i] = UpdateBounds([@ EXCEPT !.world = <<Spacing * to, 0, 0>>])] :
        i \in DOMAIN objects, to \in 0 .. MaxCoord}

\* What the Dispatches of RefitBVHBottomUp work on, for the first k of them:
\* a node buffer BuildBVH wrote that is a binary tree, the object buffer
\* UpdateGPUObjectData wrote after at most one move, and the parameters
\* UpdateCullingParams wrote.
RefitInputs ==
    UNION {LET init == GPUInitialize(Size(objects), 4, 0).gpu
               scene == UpdateSceneBounds(objects)
               params == [rootNodeIndex |-> 0, objectCount |-> Size(objects),
                          nodeCount |-> Size(objects) * 2 - 1]
           IN  {<<built.gpu.BVHNodes, UpdateGPUObjectData(built.gpu, moved).ObjectData,
                  params, k>> :
                   built \in {b \in GPUBuildBVH(init, objects, scene.minBounds,
                                                 scene.maxBounds) :
                                 IsBinaryTree(b.gpu.BVHNodes, 0, Size(objects))},
                   moved \in OneMove(objects),
                   k \in 1 .. BVH_REFIT_ITERATIONS} :
           objects \in ObjectSets \ {EmptyArray}}

InitFunction ==
    /\ m_objects = EmptyArray
    /\ m_sceneMinBounds = VecZero
    /\ m_sceneMaxBounds = VecZero
    /\ m_frustum = SeeAll
    /\ m_useGPUBVH = FALSE
    /\ m_bvhNeedsRebuild = TRUE
    /\ m_gpuBVH = NoGPU
    /\ m_cpuBVH = NoCPU
    /\ pc = "Function"
    /\ decision = NoDecision
    /\ culled = EmptyArray
    /\ lastOp = NoOp
    /\ prevOp = NoOp
    /\ before = NoGPU
    /\ stage = 0
    /\ movesLeft = 0
    /\ \/ \E frustum \in Frustums, box \in Boxes :
             call = [name |-> "IsBoxInFrustum", args |-> <<frustum, box[1], box[2]>>,
                     result |-> 0]
       \/ \E pos \in MortonPositions :
             call = [name |-> "morton3D", args |-> <<pos>>, result |-> 0]
       \/ \E codes \in UnsortedCodes :
             call = [name |-> "SortMortonCodes", args |-> <<codes, Size(codes)>>,
                     result |-> 0]
       \/ \E input \in RefitInputs :
             call = [name |-> "RefitBVHBottomUp", args |-> input, result |-> 0]
       \/ \E range \in SortedRanges :
             /\ range[2] <= range[3]
             /\ range[3] < Size(range[1])
             /\ call = [name |-> "findSplit", args |-> range, result |-> 0]

Returned(result) ==
    /\ pc = "Function"
    /\ pc' = "Returned"
    /\ call' = [call EXCEPT !.result = result]
    /\ UNCHANGED <<m_objects, m_sceneMinBounds, m_sceneMaxBounds, m_frustum, m_useGPUBVH,
                   m_bvhNeedsRebuild, m_gpuBVH, m_cpuBVH, decision, culled, lastOp,
                   prevOp, before, stage, movesLeft>>

ApplyIsBoxInFrustum ==
    /\ call.name = "IsBoxInFrustum"
    /\ Returned(IsBoxInFrustum(call.args[1], call.args[2], call.args[3]))

Applymorton3D ==
    /\ call.name = "morton3D"
    /\ Returned(morton3D(call.args[1]))

\* std::sort may leave records of equal key in any order.
ApplySortMortonCodes ==
    /\ call.name = "SortMortonCodes"
    /\ \E tie \in TieOrders(call.args[2]) :
          Returned(SortMortonCodes(call.args[1], call.args[2], tie))

\* The first call.args[4] Dispatches of the loop of RefitBVHBottomUp, under
\* any schedule of the threads.
ApplyRefitBVHBottomUp ==
    /\ call.name = "RefitBVHBottomUp"
    /\ \E nodes \in RefitIterations({call.args[1]}, call.args[2], call.args[3],
                                     call.args[4]) :
          Returned(nodes)

ApplyfindSplit ==
    /\ call.name = "findSplit"
    /\ Returned(findSplit(call.args[1], call.args[2], call.args[3]))

NextFunction ==
    \/ ApplyIsBoxInFrustum
    \/ Applymorton3D
    \/ ApplySortMortonCodes
    \/ ApplyfindSplit
    \/ ApplyRefitBVHBottomUp

SpecFunction == InitFunction /\ [][NextFunction]_vars

(***************************************************************************)
(* Kernel-level runs: the traversal loop of the culling kernel for one     *)
(* object, one iteration per step.  call.args are the node buffer, the     *)
(* frustum, the culling parameters and the object index; call.result holds *)
(* the loop state s of CullStep, the stack indices the last step read and  *)
(* wrote, and whether a push has been skipped because the stack was full.  *)
(***************************************************************************)
\* A chain of depth internal nodes 0 .. depth - 1 and depth + 1 leaves: node
\* i has the next internal node (the last one a leaf) as left child and the
\* leaf of object i as right child.  Every box is the cube of edge 2.0.
Chain(depth) ==
    Array([n \in 0 .. 2 * depth |->
              IF n < depth
              THEN BVHNode(<<0 - 100, 0 - 100, 0 - 100>>, <<100, 100, 100>>,
                           IF n = depth - 1 THEN 2 * depth ELSE n + 1, depth + n, -1, FALSE)
              ELSE BVHNode(<<0 - 100, 0 - 100, 0 - 100>>, <<100, 100, 100>>,
                           -1, -1, n - depth, TRUE)])

\* A node buffer whose only internal node has itself for both children.
SelfLoop ==
    Array([n \in 0 .. 2 |->
              IF n = 0 THEN BVHNode(VecZero, VecZero, 0, 0, -1, FALSE)
              ELSE BVHNode(VecZero, VecZero, -1, -1, n - 1, TRUE)])

\* The node buffers BuildBVH writes for the object sets of the class-level
\* runs, and the node buffers of the kernel-level runs: the chains, the self
\* loop and those.
BuiltBuffers ==
    UNION {LET scene == UpdateSceneBounds(objects)
           IN  {built.gpu.BVHNodes :
                  built \in GPUBuildBVH(GPUInitialize(Size(objects), 4, 0).gpu, objects,
                                        scene.minBounds, scene.maxBounds)} :
           objects \in ObjectSets \ {EmptyArray}}

NodeBuffers ==
    {Chain(depth) : depth \in {1, 2, 61, 62, MaxChain}} \cup {SelfLoop} \cup BuiltBuffers

\* The stack indices one iteration of the loop reads and writes from the
\* loop state s, and whether it skips a push because stackPtr is 63.
StackAccess(nodes, frustum, params, s) ==
    LET stackPtr == Len(s.stack) - 1
        nodeIndex == s.stack[Len(s.stack)]
        node == IF nodeIndex \in DOMAIN nodes THEN nodes[nodeIndex] ELSE ZeroNode
        pushes == /\ ~(nodeIndex < 0 \/ nodeIndex >= params.nodeCount)
                  /\ IsBoxInFrustum(frustum, node.minBounds, node.maxBounds)
                  /\ ~node.isLeaf
        right == pushes /\ node.rightChild >= 0
        afterRight == IF right /\ stackPtr < 63 THEN stackPtr + 1 ELSE stackPtr
        left == pushes /\ node.leftChild >= 0
    IN  [reads |-> {stackPtr},
         writes |-> (IF right /\ stackPtr < 63 THEN {stackPtr} ELSE {})
                    \cup (IF left /\ afterRight < 63 THEN {afterRight} ELSE {}),
         skipped |-> (right /\ ~(stackPtr < 63)) \/ (left /\ ~(afterRight < 63))]

\* The kernel has stored the root index at stack[0]; the loop has not run.
InitKernel ==
    /\ m_objects = EmptyArray
    /\ m_sceneMinBounds = VecZero
    /\ m_sceneMaxBounds = VecZero
    /\ m_frustum = SeeAll
    /\ m_useGPUBVH = TRUE
    /\ m_bvhNeedsRebuild = FALSE
    /\ m_gpuBVH = NoGPU
    /\ m_cpuBVH = NoCPU
    /\ pc = "Loop"
    /\ decision = NoDecision
    /\ culled = EmptyArray
    /\ lastOp = NoOp
    /\ prevOp = NoOp
    /\ before = NoGPU
    /\ stage = 0
    /\ movesLeft = 0
    /\ \E nodes \in NodeBuffers, frustum \in {SeeAll, LookAlongX} :
       \E objIdx \in 0 .. (Size(nodes) - 1) \div 2 :
          call = [name |-> "CullTraversal",
                  args |-> <<nodes, frustum,
                             [rootNodeIndex |-> 0, objectCount |-> (Size(nodes) + 1) \div 2,
                              nodeCount |-> Size(nodes)],
                             objIdx>>,
                  result |-> [s |-> [stack |-> <<0>>, visible |-> 0, done |-> FALSE],
                              reads |-> {}, writes |-> {0}, skipped |-> FALSE]]

\* The loop condition holds: one iteration.
LoopIteration ==
    /\ pc = "Loop"
    /\ Len(call.result.s.stack) > 0 /\ Len(call.result.s.stack) < 64
    /\ LET s == call.result.s
           access == StackAccess(call.args[1], call.args[2], call.args[3], s)
           next == CullStep(call.args[1], call.args[2], call.args[3], call.args[4], s)
       IN  /\ call' = [call EXCEPT !.result =
                          [s |-> next, reads |-> access.reads, writes |-> access.writes,
                           skipped |-> @.skipped \/ access.skipped]]
           /\ pc' = IF next.done THEN "Returned" ELSE "Loop"
    /\ UNCHANGED <<m_objects, m_sceneMinBounds, m_sceneMaxBounds, m_frustum, m_useGPUBVH,
                   m_bvhNeedsRebuild, m_gpuBVH, m_cpuBVH, decision, culled, lastOp,
                   prevOp, before, stage, movesLeft>>

\* The loop condition fails: the thread leaves the loop.
LoopExit ==
    /\ pc = "Loop"
    /\ ~(Len(call.result.s.stack) > 0 /\ Len(call.result.s.stack) < 64)
    /\ call' = [call EXCEPT !.result.s.done = TRUE, !.result.reads = {},
                            !.result.writes = {}]
    /\ pc' = "Returned"
    /\ UNCHANGED <<m_objects, m_sceneMinBounds, m_sceneMaxBounds, m_frustum, m_useGPUBVH,
                   m_bvhNeedsRebuild, m_gpuBVH, m_cpuBVH, decision, culled, lastOp,
                   prevOp, before, stage, movesLeft>>

NextKernel ==
    \/ LoopIteration
    \/ LoopExit

SpecKernel == InitKernel /\ [][NextKernel]_vars

\* A thread of a Dispatch that can take a step takes it.
SpecKernelFair == SpecKernel /\ WF_vars(NextKernel)

(***************************************************************************)
(* Properties.                                                             *)
(***************************************************************************)
\* Every leaf of nodes has the box of its object, every internal node the
\* union of the boxes stored in its two children.
BoundsAreUnions(nodes, objects) ==
    \A k \in DOMAIN nodes :
        IF nodes[k].isLeaf
        THEN /\ nodes[k].objectIndex \in DOMAIN objects
             /\ nodes[k].minBounds = objects[nodes[k].objectIndex].minBounds
             /\ nodes[k].maxBounds = objects[nodes[k].objectIndex].maxBounds
        ELSE /\ nodes[k].leftChild \in DOMAIN nodes
             /\ nodes[k].rightChild \in DOMAIN nodes
             /\ nodes[k].minBounds = VecMin(nodes[nodes[k].leftChild].minBounds,
                                            nodes[nodes[k].rightChild].minBounds)
             /\ nodes[k].maxBounds = VecMax(nodes[nodes[k].leftChild].maxBounds,
                                            nodes[nodes[k].rightChild].maxBounds)

\* The boxes of the nodes, without the links.
NodeBounds(nodes) == Array([k \in DOMAIN nodes |-> ReadBounds(nodes, k)])

\* The links of the nodes, without the boxes.
NodeLinks(nodes) ==
    Array([k \in DOMAIN nodes |->
              <<nodes[k].leftChild, nodes[k].rightChild, nodes[k].objectIndex,
                nodes[k].isLeaf>>])

\* C1: on the CPU backend, after a frame's UpdateBVH and PerformCulling every
\* object whose current box the frustum classifier accepts is marked visible,
\* whatever distance the dynamic objects moved by.
C1_NoFalseNegatives ==
    (pc = "Render" /\ ~m_useGPUBVH) =>
        \A i \in DOMAIN m_objects :
            IsBoxInFrustum(m_frustum, m_objects[i].minBounds, m_objects[i].maxBounds)
                => culled[i]

\* C2: for N >= 1 objects CPUBVHSystem::BuildBVH leaves 2N - 1 nodes, N leaves
\* with one leaf per object and N - 1 internal nodes with two distinct
\* children, every node reached exactly once from the root; for N = 1 the
\* root is the single leaf.
C2_CPUBuildIsTree ==
    (lastOp.name = "CPUBuildBVH" /\ Size(m_objects) >= 1) =>
        /\ IsBinaryTree(m_cpuBVH.m_bvhNodes, m_cpuBVH.m_rootNode, Size(m_objects))
        /\ Size(m_objects) = 1 => m_cpuBVH.m_bvhNodes[m_cpuBVH.m_rootNode].isLeaf

C2_Witness ==
    /\ lastOp.name = "CPUBuildBVH"
    /\ prevOp.name = "MoveObject"
    /\ Size(m_objects) = MaxObjects
    /\ ~m_cpuBVH.m_bvhNodes[m_cpuBVH.m_rootNode].isLeaf

\* C3: for N >= 2 objects the nodes written by the GPU construction kernel
\* are a complete binary tree rooted at index 0, with the internal nodes at
\* 0 .. N-2 and the leaves at N-1 .. 2N-2, each visited exactly once from the
\* root.
C3_GPUBuildIsTree ==
    (lastOp.name = "BuildBVH" /\ lastOp.result /\ Size(m_objects) >= 2) =>
        /\ IsBinaryTree(m_gpuBVH.BVHNodes, 0, Size(m_objects))
        /\ \A k \in DOMAIN m_gpuBVH.BVHNodes :
              m_gpuBVH.BVHNodes[k].isLeaf <=> k >= Size(m_objects) - 1

\* C4: after a build by either backend every internal node's box is the
\* union of the boxes stored in its two children and every leaf's box is the
\* box of its object.
C4_BuildBoundsAreUnions ==
    /\ lastOp.name = "CPUBuildBVH" => BoundsAreUnions(m_cpuBVH.m_bvhNodes, m_objects)
    /\ (lastOp.name = "BuildBVH" /\ lastOp.result)
          => BoundsAreUnions(m_gpuBVH.BVHNodes, m_objects)

\* The constant buffer the refit kernel takes its counts from holds what
\* PerformFrustumCulling writes for the objects.
ParamsWritten(gpu, objects) ==
    gpu.cullingParams = [rootNodeIndex |-> 0, objectCount |-> Size(objects),
                         nodeCount |-> Size(objects) * 2 - 1]

\* C5: RefitBVH called after BuildBVH with no object moved (and nothing but
\* a culling pass in between) leaves the box of every node as the build
\* wrote it.
C5_RefitAfterBuildKeepsBounds ==
    (/\ lastOp.name = "RefitBVH" /\ lastOp.result
     /\ prevOp.name = "PerformFrustumCulling" /\ prevOp.result
     /\ ParamsWritten(before, m_objects)
     /\ stage = Refitted
     /\ movesLeft = MaxMoves) =>
        NodeBounds(m_gpuBVH.BVHNodes) = NodeBounds(before.BVHNodes)

\* C6: a second RefitBVH with the same object boxes leaves the box of every
\* node as the first RefitBVH left it.
C6_RefitIsIdempotent ==
    (/\ lastOp.name = "RefitBVH" /\ lastOp.result
     /\ prevOp.name = "RefitBVH" /\ prevOp.result
     /\ ParamsWritten(before, m_objects)) =>
        NodeBounds(m_gpuBVH.BVHNodes) = NodeBounds(before.BVHNodes)

\* C7: RefitBVH leaves the links of every node, the frame counter, the
\* accumulated movement, the previous positions and the initial quality
\* metric as they were.
C7_RefitFrame ==
    lastOp.name = "RefitBVH" =>
        /\ NodeLinks(m_gpuBVH.BVHNodes) = NodeLinks(before.BVHNodes)
        /\ m_gpuBVH.m_framesSinceLastRebuild = before.m_framesSinceLastRebuild
        /\ m_gpuBVH.m_accumulatedMovement = before.m_accumulatedMovement
        /\ m_gpuBVH.m_previousPositions = before.m_previousPositions
        /\ m_gpuBVH.m_initialBVHSurfaceArea = before.m_initialBVHSurfaceArea

C7_Witness ==
    /\ lastOp.name = "RefitBVH" /\ lastOp.result
    /\ NodeBounds(m_gpuBVH.BVHNodes) # NodeBounds(before.BVHNodes)
    /\ m_gpuBVH.m_currentBVHSurfaceArea # before.m_currentBVHSurfaceArea
    /\ before.m_framesSinceLastRebuild > 0
    /\ before.m_accumulatedMovement > 0

\* C8: in the frame loop on the GPU backend the ShouldRebuildBVH call that
\* brings the frame counter to MAX_FRAMES_BETWEEN_REBUILDS returns rebuild,
\* the rebuild resets the counter, and the counter never exceeds
\* MAX_FRAMES_BETWEEN_REBUILDS.
C8_FrameCeiling ==
    /\ m_gpuBVH.m_framesSinceLastRebuild <= MAX_FRAMES_BETWEEN_REBUILDS
    /\ (pc = "Render" /\ decision.called
        /\ decision.frames >= MAX_FRAMES_BETWEEN_REBUILDS) =>
          /\ decision.result
          /\ lastOp.name = "BuildBVH" /\ lastOp.result
          /\ m_gpuBVH.m_framesSinceLastRebuild = 0

C8_Witness ==
    /\ pc = "Render" /\ decision.called
    /\ decision.frames = MAX_FRAMES_BETWEEN_REBUILDS
    /\ decision.accumulated = 0
    /\ m_gpuBVH.m_currentBVHSurfaceArea = m_gpuBVH.m_initialBVHSurfaceArea
    /\ decision.result

\* C9: below the frame ceiling ShouldRebuildBVH returns none while the
\* movement accumulated since the last rebuild is at most REBUILD_THRESHOLD
\* and rebuild once it exceeds REBUILD_THRESHOLD.
C9_MovementThreshold ==
    (pc = "Render" /\ decision.called
     /\ decision.frames < MAX_FRAMES_BETWEEN_REBUILDS) =>
        (decision.result <=> decision.accumulated > REBUILD_THRESHOLD)

\* C10: a BuildBVH that returns true leaves the frame counter and the
\* accumulated movement 0 and the previous positions equal to the positions
\* of the objects; one that returns false leaves the three as they were.
C10_BuildResetsPolicy ==
    lastOp.name = "BuildBVH" =>
        IF lastOp.result
        THEN /\ m_gpuBVH.m_framesSinceLastRebuild = 0
             /\ m_gpuBVH.m_accumulatedMovement = 0
             /\ m_gpuBVH.m_previousPositions =
                    Array([i \in DOMAIN m_objects |-> GetPosition(m_objects[i])])
        ELSE /\ m_gpuBVH.m_framesSinceLastRebuild = before.m_framesSinceLastRebuild
             /\ m_gpuBVH.m_accumulatedMovement = before.m_accumulatedMovement
             /\ m_gpuBVH.m_previousPositions = before.m_previousPositions

C10_Witness ==
    /\ lastOp.name = "BuildBVH" /\ lastOp.result
    /\ before.m_framesSinceLastRebuild > 0
    /\ before.m_accumulatedMovement > 0
    /\ Size(m_gpuBVH.m_previousPositions) = MaxObjects

\* A BuildBVH that returned false on a system whose policy state had changed.
C10_FailedBuildReached ==
    /\ lastOp.name = "BuildBVH" /\ ~lastOp.result
    /\ before.m_framesSinceLastRebuild > 0
    /\ Size(before.m_previousPositions) > 0


\* C11: after every successful GPUBVHSystem::BuildBVH, the first and every
\* later one, the initial quality metric is the metric of the tree just
\* built, so that the quality ratio evaluated right after the build is 1.
C11_RebuildRecapturesMetric ==
    (lastOp.name = "BuildBVH" /\ lastOp.result) =>
        /\ m_gpuBVH.m_initialBVHSurfaceArea = m_gpuBVH.m_currentBVHSurfaceArea
        /\ LET quality == CalculateBVHQuality(m_gpuBVH)
           IN  quality[1] = quality[2]


\* C12: in every frame UpdateBVH runs exactly one of rebuild, refit and
\* no-op.  A rebuild runs whenever one was chosen (m_bvhNeedsRebuild set or
\* ShouldRebuildBVH returned true), a refit only when none was chosen and a
\* dynamic object moved by more than MOVEMENT_THRESHOLD in the frame, and
\* nothing only when neither applies.  A no-op leaves both hierarchies as
\* they were, a refit leaves the links, the CPU hierarchy and the rebuild
\* clock as they were, and a GPU rebuild is not followed by a refit (the
\* current metric is the one BuildBVH computed).
C12_ExactlyOneOperation ==
    [][(pc = "Update" /\ pc' = "Render") =>
          LET op == lastOp'.name
              rebuildChosen == m_bvhNeedsRebuild \/ (decision'.called /\ decision'.result)
              moved == HasSignificantMovement(m_objects')
              accumulated == IF decision'.called THEN decision'.accumulated
                             ELSE m_gpuBVH.m_accumulatedMovement
          IN  /\ op \in {"BuildBVH", "RefitBVH", "none"}
              /\ rebuildChosen => op = "BuildBVH"
              /\ op = "RefitBVH" => ~rebuildChosen /\ moved
              /\ op = "none" <=> ~rebuildChosen /\ ~moved
              /\ op = "none" =>
                    /\ m_gpuBVH'.BVHNodes = m_gpuBVH.BVHNodes
                    /\ m_gpuBVH'.m_currentBVHSurfaceArea = m_gpuBVH.m_currentBVHSurfaceArea
                    /\ m_cpuBVH' = m_cpuBVH
              /\ op = "RefitBVH" =>
                    /\ NodeLinks(m_gpuBVH'.BVHNodes) = NodeLinks(m_gpuBVH.BVHNodes)
                    /\ m_gpuBVH'.m_framesSinceLastRebuild = decision'.frames
                    /\ m_cpuBVH' = m_cpuBVH
              /\ (op = "BuildBVH" /\ m_useGPUBVH /\ lastOp'.result) =>
                    /\ m_gpuBVH'.m_framesSinceLastRebuild = 0
                    /\ m_gpuBVH'.m_currentBVHSurfaceArea = accumulated + 1000
                    /\ m_cpuBVH' = m_cpuBVH]_vars

\* A frame in which the policy chose no rebuild and UpdateBVH refitted.
C12_Witness ==
    /\ pc = "Render" /\ m_useGPUBVH
    /\ decision.called /\ ~decision.result
    /\ lastOp.name = "RefitBVH" /\ lastOp.result
    /\ HasSignificantMovement(m_objects)


\* The 8 corners of a box and the signed distance of a point to a plane.
Corners(minBounds, maxBounds) ==
    {<<x, y, z>> : x \in {minBounds[1], maxBounds[1]}, y \in {minBounds[2], maxBounds[2]},
                   z \in {minBounds[3], maxBounds[3]}}

SignedDistance(plane, v) == plane[1] * v[1] + plane[2] * v[2] + plane[3] * v[3] + plane[4]

\* C13: for a box with min <= max and any six planes, IsBoxInFrustum answers
\* "outside" exactly when all 8 corners of the box are at a strictly
\* negative signed distance from one of the planes.
C13_OutsideIffBehindOnePlane ==
    (pc = "Returned" /\ call.name = "IsBoxInFrustum") =>
        (call.result = FALSE <=>
            \E i \in 1 .. 6 :
                \A v \in Corners(call.args[2], call.args[3]) :
                    SignedDistance(call.args[1][i], v) < 0)

\* A box that encloses the whole frustum and has corners at distance exactly
\* 0 from its planes is classified inside-or-intersecting.
C13_Witness ==
    /\ pc = "Returned" /\ call.name = "IsBoxInFrustum"
    /\ call.args[1] = CubeFrustum(MaxPlane)
    /\ call.args[2] = <<0 - MaxPlane, 0 - MaxPlane, 0 - MaxPlane>>
    /\ call.args[3] = <<MaxPlane, MaxPlane, MaxPlane>>
    /\ \E v \in Corners(call.args[2], call.args[3]) :
          SignedDistance(call.args[1][1], v) = 0
    /\ call.result = TRUE


\* C14: after CPUBVHSystem::BuildBVH on the current objects,
\* CPUBVHSystem::PerformFrustumCulling marks object i visible if and only if
\* IsBoxInFrustum holds of object i's own box, for every frustum.
C14_TraversalAgreesWithDirectTest ==
    (lastOp.name = "CPUPerformFrustumCulling" /\ prevOp.name = "CPUBuildBVH") =>
        \A i \in DOMAIN m_objects :
            /\ m_objects[i].visible <=>
                   IsBoxInFrustum(m_frustum, m_objects[i].minBounds, m_objects[i].maxBounds)
            /\ culled[i] = m_objects[i].visible

\* The grid of six under the frustum that covers its left half: exactly the
\* three objects of the left column are visible.
C14_Witness ==
    /\ lastOp.name = "CPUPerformFrustumCulling"
    /\ prevOp.name = "CPUBuildBVH"
    /\ Size(m_objects) = 6
    /\ m_frustum = <<<<0 - 1, 0, 0, 0>>, AllPass, AllPass, AllPass, AllPass, AllPass>>
    /\ \A i \in DOMAIN m_objects : m_objects[i].visible <=> i % 2 = 0
    /\ \A i \in DOMAIN m_objects : m_objects[i].visible <=> m_objects[i].world[1] < 0

\* C15: for the same objects and the same frustum, with every
\* occludedFrameCount = 0, a build on each system and a ready readback,
\* GPUBVHSystem::PerformFrustumCulling and CPUBVHSystem::PerformFrustumCulling
\* give every object the same visible flag.
C15_BackendsAgree ==
    (/\ lastOp = [name |-> "PerformFrustumCulling", result |-> TRUE]
     /\ prevOp = [name |-> "BuildBVH", result |-> TRUE]
     /\ m_gpuBVH.readback = "ready"
     /\ \A i \in DOMAIN m_objects : m_objects[i].occludedFrameCount = 0) =>
        \A tie \in TieOrders(Size(m_objects)) :
            LET cpu == CPUPerformFrustumCulling(CPUBuildBVH(NoCPU, m_objects, tie),
                                                m_frustum, m_objects)
            IN  \A i \in DOMAIN m_objects : m_objects[i].visible = cpu[i].visible

\* C16: on both backends, an object whose occludedFrameCount is above the
\* suppression threshold (2, the culling kernel's) when DXGame::PerformCulling
\* runs has the same visible flag after PerformCulling as before it.
C16_OccludedObjectsKeepFlag ==
    [][pc = "Update" =>
          \A i \in DOMAIN m_objects :
              m_objects[i].occludedFrameCount > 2 => culled'[i] = m_objects[i].visible]_vars

\* C17: when the Map of the visibility readback buffer reports that the
\* results are not ready, DXGame::PerformCulling leaves every object's
\* visible flag as it was: the GPU path writes nothing and the CPU culling
\* is not run.
C17_StaleReadbackKeepsFlags ==
    [][(pc = "Update" /\ m_useGPUBVH /\ m_gpuBVH'.readback = "pending") =>
          \A i \in DOMAIN m_objects : culled'[i] = m_objects[i].visible]_vars

\* A frame whose readback was not ready has left visible a cube that is
\* outside the frustum.
C17_Witness ==
    /\ pc = "Render"
    /\ m_useGPUBVH
    /\ m_gpuBVH.readback = "pending"
    /\ \E i \in DOMAIN m_objects :
          /\ culled[i]
          /\ m_objects[i].visible
          /\ ~IsBoxInFrustum(m_frustum, m_objects[i].minBounds, m_objects[i].maxBounds)

\* C18: once a call of the GPU system has returned false (Initialize, or
\* BuildBVH, RefitBVH or PerformFrustumCulling in the last frame), the next
\* frame runs on the CPU backend only and leaves the GPU system alone.
C18_FallbackIsPermanent ==
    [][(/\ pc = "Update"
        /\ \/ m_gpuBVH.readback = "failed"
           \/ lastOp.name \in {"BuildBVH", "RefitBVH"} /\ ~lastOp.result) =>
          (~m_useGPUBVH /\ m_gpuBVH' = m_gpuBVH)]_vars

\* C19: after PerformFrustumCulling of either system, an object whose box
\* has min > max on some axis is not visible, for every frustum.
C19_InvalidBoundsNeverVisible ==
    (\/ lastOp.name = "CPUPerformFrustumCulling"
     \/ /\ lastOp = [name |-> "PerformFrustumCulling", result |-> TRUE]
        /\ m_gpuBVH.readback = "ready") =>
        \A i \in DOMAIN m_objects :
            (\E axis \in 1 .. 3 : m_objects[i].minBounds[axis] > m_objects[i].maxBounds[axis])
                => ~m_objects[i].visible

\* Bit i of v.
Bit(v, i) == (v \div 2 ^ i) % 2

\* The key with bit i of x at bit 3i + 2, of y at bit 3i + 1, of z at bit 3i,
\* for the bits 0 .. i.
RECURSIVE InterleaveTo(_, _)
InterleaveTo(pos, i) ==
    IF i < 0 THEN 0
    ELSE InterleaveTo(pos, i - 1)
         + Bit(pos[1], i) * 2 ^ (3 * i + 2)
         + Bit(pos[2], i) * 2 ^ (3 * i + 1)
         + Bit(pos[3], i) * 2 ^ (3 * i)

\* The number whose bit i is bit 3i + shift of key, for the bits 0 .. i.
RECURSIVE EveryThirdBit(_, _, _)
EveryThirdBit(key, shift, i) ==
    IF i < 0 THEN 0
    ELSE EveryThirdBit(key, shift, i - 1) + Bit(key, 3 * i + shift) * 2 ^ i

\* C20: for quantized x, y, z in 0 .. 1023, morton3D returns the key that
\* has bit i of x at bit 3i + 2, bit i of y at bit 3i + 1 and bit i of z at
\* bit 3i; the key is below 2^30 and the triple can be read back from it,
\* so distinct triples have distinct keys.
C20_MortonInterleavesBits ==
    (pc = "Returned" /\ call.name = "morton3D") =>
        LET pos == call.args[1]
            key == call.result
        IN  /\ key = InterleaveTo(pos, 9)
            /\ key >= 0 /\ key < 2 ^ 30
            /\ <<EveryThirdBit(key, 2, 9), EveryThirdBit(key, 1, 9),
                 EveryThirdBit(key, 0, 9)>> = pos

\* morton3D has returned the key of (1023, 682, 1): x gives the bits 3i + 2,
\* y the bits 3i + 1 for odd i, z the bit 0.
C20_Witness ==
    /\ pc = "Returned"
    /\ call.name = "morton3D"
    /\ call.args[1] = <<1023, 682, 1>>
    /\ \A b \in 0 .. 29 :
          Bit(call.result, b) = (IF b % 3 = 2 THEN 1
                                 ELSE IF b % 3 = 1 THEN (b \div 3) % 2
                                 ELSE IF b = 0 THEN 1 ELSE 0)

\* C21: SortMortonCodes returns a permutation of its input records in
\* ascending key order, records of equal key in ascending objectIndex order.
C21_SortIsDeterministic ==
    (pc = "Returned" /\ call.name = "SortMortonCodes") =>
        LET input == call.args[1]
            sorted == call.result
            n == call.args[2]
        IN  /\ Size(sorted) = n
            /\ \A i \in 0 .. n - 1 : \E k \in 0 .. n - 1 : sorted[k] = input[i]
            /\ \A k \in 0 .. n - 2 :
                  \/ sorted[k].mortonCode < sorted[k + 1].mortonCode
                  \/ /\ sorted[k].mortonCode = sorted[k + 1].mortonCode
                     /\ sorted[k].objectIndex < sorted[k + 1].objectIndex

\* C22: below the frame ceiling, the first ShouldRebuildBVH after a
\* successful BuildBVH records the current positions and returns no-op,
\* whatever distance the objects moved since the build.
C22_FirstEvaluationIsNoOp ==
    (/\ lastOp.name = "ShouldRebuildBVH"
     /\ ~before.m_needsRebuild
     /\ before.m_framesSinceLastRebuild = 0
     /\ decision.frames < MAX_FRAMES_BETWEEN_REBUILDS) =>
        /\ ~decision.result
        /\ m_gpuBVH.m_previousPositions =
               Array([i \in DOMAIN m_objects |-> GetPosition(m_objects[i])])

\* The height of node n above the leaves.
RECURSIVE Height(_, _)
Height(nodes, n) ==
    IF nodes[n].isLeaf THEN 0
    ELSE 1 + MaxInt(Height(nodes, nodes[n].leftChild), Height(nodes, nodes[n].rightChild))

\* The union of the boxes objs holds for the objects in the subtree of n.
RECURSIVE SubtreeBounds(_, _, _)
SubtreeBounds(nodes, objs, n) ==
    IF nodes[n].isLeaf THEN ReadBounds(objs, nodes[n].objectIndex)
    ELSE LET left == SubtreeBounds(nodes, objs, nodes[n].leftChild)
             right == SubtreeBounds(nodes, objs, nodes[n].rightChild)
         IN  Bounds(VecMin(left.minBounds, right.minBounds),
                    VecMax(left.maxBounds, right.maxBounds))

\* After k Dispatches every node of height at most h has the union of the
\* current boxes of the objects in its subtree.
ConvergedTo(h) ==
    \A n \in DOMAIN call.result :
        Height(call.result, n) <= h =>
            ReadBounds(call.result, n) = SubtreeBounds(call.result, call.args[2], n)

\* C23 as stated: after k Dispatches of the refit kernel on a binary tree,
\* under any schedule of the threads, every node of height at most k has
\* the union of the current boxes of the objects in its subtree.
C23_RefitConvergesToHeightK ==
    (pc = "Returned" /\ call.name = "RefitBVHBottomUp") => ConvergedTo(call.args[4])

\* C23 amended: after k Dispatches every node of height at most k - 1 has
\* the union of the current boxes of the objects in its subtree, and the
\* links are unchanged.
C23_RefitConvergesBelowHeightK ==
    (pc = "Returned" /\ call.name = "RefitBVHBottomUp") =>
        /\ ConvergedTo(call.args[4] - 1)
        /\ NodeLinks(call.result) = NodeLinks(call.args[1])

\* Three Dispatches on a tree of height 2 after a move that changes the
\* box of the root.
C23_Witness ==
    /\ pc = "Returned"
    /\ call.name = "RefitBVHBottomUp"
    /\ call.args[4] = BVH_REFIT_ITERATIONS
    /\ Height(call.result, 0) = 2
    /\ ReadBounds(call.result, 0) # ReadBounds(call.args[1], 0)
    /\ ReadBounds(call.result, 0) = SubtreeBounds(call.result, call.args[2], 0)

\* The length of the common prefix of two 32-bit keys.
CommonPrefixLength(a, b) == 31 - firstbithigh(BitXor(a, b))

\* C24: for ascending keys and a range first < last whose end keys differ,
\* findSplit returns the largest index s in first .. last - 1 whose key
\* shares a strictly longer prefix with key[first] than key[last] does; when
\* the end keys are equal it returns (first + last) / 2.
C24_FindSplitReturnsPrefixBoundary ==
    (pc = "Returned" /\ call.name = "findSplit" /\ call.args[2] < call.args[3]) =>
        LET codes == call.args[1]
            first == call.args[2]
            last == call.args[3]
            Key(i) == codes[i].mortonCode
            longer == {s \in first .. last - 1 :
                         CommonPrefixLength(Key(first), Key(s))
                             > CommonPrefixLength(Key(first), Key(last))}
        IN  IF Key(first) = Key(last)
            THEN call.result = (first + last) \div 2
            ELSE /\ call.result \in longer
                 /\ \A s \in longer : s <= call.result

C26_TraversalTerminates ==
    (call.name = "CullTraversal" /\ call.args[1] \in BuiltBuffers) => <>(pc = "Returned")

\* C27: the scene bounds the frame loop passes to GPUBVHSystem::BuildBVH
\* have a strictly positive extent on every axis and contain the bounding box
\* of every object.
C27_SceneBoundsContainObjects ==
    (pc = "Render" /\ m_useGPUBVH /\ lastOp.name = "BuildBVH") =>
        /\ \A a \in 1 .. 3 : m_sceneMinBounds[a] < m_sceneMaxBounds[a]
        /\ \A i \in DOMAIN m_objects : \A a \in 1 .. 3 :
              /\ m_sceneMinBounds[a] <= Scale(m_objects[i].minBounds)[a]
              /\ Scale(m_objects[i].maxBounds)[a] <= m_sceneMaxBounds[a]

\* The value the traversal of the culling kernel produces for an object from
\* the nodes, the parameters and the frustum of a dispatch.
TraversalFlag(gpu, frustum, objIdx) ==
    CullTraverse(gpu.BVHNodes, frustum, gpu.cullingParams, objIdx,
                 [stack |-> <<gpu.cullingParams.rootNodeIndex>>, visible |-> 0,
                  done |-> FALSE], 0) = 1

\* C28: the flags GPUBVHSystem::PerformFrustumCulling writes into the objects
\* in a frame are, for every object index, the value the traversal of the
\* kernel produces in the dispatch of that frame or of the frame before, from
\* the frustum, the nodes and the object data uploaded for that dispatch.
C28_FlagsComeFromRecentDispatch ==
    (pc = "Render" /\ m_useGPUBVH /\ m_gpuBVH.readback = "ready" /\ stage >= 2) =>
        \A i \in DOMAIN m_objects :
            \/ culled[i] = TraversalFlag(m_gpuBVH, m_frustum, i)
            \/ culled[i] = TraversalFlag(before, m_frustum, i)

\* C29: in the frame after a frame whose GPUBVHSystem::BuildBVH succeeded, if
\* no object has moved and the frame ceiling is not reached, ShouldRebuildBVH
\* does not return rebuild.
C29_NoRebuildOnStillScene ==
    [][(/\ pc = "Update"
        /\ m_useGPUBVH
        /\ lastOp = [name |-> "BuildBVH", result |-> TRUE]
        /\ \A i \in DOMAIN m_objects : m_objects'[i].world = m_objects[i].world
        /\ decision'.frames < MAX_FRAMES_BETWEEN_REBUILDS) =>
            ~decision'.result]_vars

\* C30: in a frame in which DXGame::PerformCulling ran the CPU culling (the
\* GPU backend is disabled, or the GPU culling returned false), the CPU
\* hierarchy is valid and has a leaf for every object.
C30_FallbackHasHierarchy ==
    (pc = "Render" /\ (~m_useGPUBVH \/ m_gpuBVH.readback = "failed")) =>
        /\ IsValid(m_cpuBVH)
        /\ \A i \in DOMAIN m_objects :
              \E n \in DOMAIN m_cpuBVH.m_bvhNodes :
                  m_cpuBVH.m_bvhNodes[n].isLeaf /\ m_cpuBVH.m_bvhNodes[n].objectIndex = i
====
